---- MODULE Spec2Model ----
(***************************************************************************)
(* Model of the multiplexed response dispatcher of actix-http:             *)
(*   - h2/dispatcher.rs: Dispatcher::poll (the accept loop), the task it   *)
(*     spawns per stream, handle_response and prepare_response;            *)
(*   - h3/dispatcher.rs: the same parts of the HTTP/3 dispatcher.          *)
(* A connection is one accept loop plus one spawned task per accepted      *)
(* stream.  Every task runs on the same single-threaded runtime, so the    *)
(* code between two awaits is one atomic step: each action below is one    *)
(* resumption of one future, from the await that woke it to the next await *)
(* (or to the end of the future).                                          *)
(***************************************************************************)
EXTENDS Integers, Sequences, FiniteSets, TLC

----------------------------------------------------------------------------
(* Bounds of the model *)

\* streams one connection accepts before the model stops accepting
MaxStreams == 2
\* chunks one response body yields
MaxChunks == 2
\* bytes one response body yields in all
MaxBytes == 3
\* zero-byte capacity grants one stream receives
MaxZeroGrants == 1

----------------------------------------------------------------------------
(* Program constants *)

CHUNK_SIZE == 16384

NO_CONTENT == 204
CONTINUE == 100
PROCESSING == 102
SWITCHING_PROTOCOLS == 101
OK == 200
INTERNAL_SERVER_ERROR == 500

CONNECTION == "connection"
CONTENT_LENGTH == "content-length"
DATE == "date"
TRANSFER_ENCODING == "transfer-encoding"

HTTP_2 == "HTTP/2.0"
HTTP_3 == "HTTP/3.0"

Min(a, b) == IF a < b THEN a ELSE b

----------------------------------------------------------------------------
(* BodySize: None | Empty | Sized(n) | Stream *)

BodySize_None == [t |-> "None", n |-> 0]
BodySize_Empty == [t |-> "Empty", n |-> 0]
BodySize_Stream == [t |-> "Stream", n |-> 0]
BodySize_Sized(len) == [t |-> "Sized", n |-> len]

\* BodySize::is_eof
is_eof(size) ==
    \/ size.t = "None"
    \/ size.t = "Empty"
    \/ (size.t = "Sized" /\ size.n = 0)

----------------------------------------------------------------------------
(* Bytes: a view of len bytes starting at offset off of the buffer the body *)
(* produced as its chunk number src.                                        *)

Bytes(src, off, len) == [src |-> src, off |-> off, len |-> len]

\* Bytes::new(): the empty buffer, a view of no chunk
Bytes_new == Bytes(0, 0, 0)

\* split_to taking the bytes from the back of the chunk
split_to_back(chunk, at) ==
    [bytes |-> Bytes(chunk.src, chunk.off + chunk.len - at, at),
     chunk |-> Bytes(chunk.src, chunk.off, chunk.len - at)]

\* chunk.split_to(at): returns the first `at` bytes, the chunk keeps the rest
split_to(chunk, at) ==
    [bytes |-> Bytes(chunk.src, chunk.off, at),
     chunk |-> Bytes(chunk.src, chunk.off + at, chunk.len - at)]

----------------------------------------------------------------------------
(* BodyStream: body/body_stream.rs *)

\* the longest wrapped stream
MaxItems == 3

\* what one poll of a stream answers
ItemPending == [t |-> "Pending", bytes |-> Bytes_new, err |-> ""]
ItemNone == [t |-> "None", bytes |-> Bytes_new, err |-> ""]
ItemOk(bytes) == [t |-> "Ok", bytes |-> bytes, err |-> ""]
ItemErr(e) == [t |-> "Err", bytes |-> Bytes_new, err |-> e]

\* the wrapped stream, as stream::iter over its items: the items in order,
\* then None on every later poll; polled counts its polls
Stream(items) == [items |-> items, pos |-> 1, polled |-> 0]

Stream_poll_next(stream) ==
    IF stream.pos > Len(stream.items)
    THEN [item |-> ItemNone, stream |-> [stream EXCEPT !.polled = @ + 1]]
    ELSE [item |-> stream.items[stream.pos],
          stream |-> [stream EXCEPT !.pos = @ + 1, !.polled = @ + 1]]

BodyStream_new(stream) == [stream |-> stream]

\* BodyStream::size declaring no body once the wrapped stream is exhausted
BodyStream_size_exhausted(self) ==
    IF self.stream.pos > Len(self.stream.items) THEN BodySize_None
    ELSE BodySize_Stream

BodyStream_size(self) == BodySize_Stream

\* BodyStream::poll_next returning every ready item as it is
BodyStream_poll_next_noskip(self) ==
    LET p == Stream_poll_next(self.stream)
    IN  [poll |-> p.item, self |-> [self EXCEPT !.stream = p.stream]]

RECURSIVE BodyStream_poll_next_swallow(_)
\* BodyStream::poll_next skipping an Err as it skips an empty chunk
BodyStream_poll_next_swallow(self) ==
    LET p == Stream_poll_next(self.stream)
        next == [self EXCEPT !.stream = p.stream]
    IN  IF p.item.t = "Pending" THEN [poll |-> ItemPending, self |-> next]
        ELSE IF p.item.t = "Err" \/ (p.item.t = "Ok" /\ p.item.bytes.len = 0)
        THEN BodyStream_poll_next_swallow(next)
        ELSE [poll |-> p.item, self |-> next]

RECURSIVE BodyStream_poll_next_yield(_)
\* BodyStream::poll_next returning Pending after an empty chunk it skipped
BodyStream_poll_next_yield(self) ==
    LET p == Stream_poll_next(self.stream)
        next == [self EXCEPT !.stream = p.stream]
    IN  IF p.item.t = "Pending" THEN [poll |-> ItemPending, self |-> next]
        ELSE IF p.item.t = "Ok" /\ p.item.bytes.len = 0
        THEN [poll |-> ItemPending, self |-> next]
        ELSE [poll |-> p.item, self |-> next]

RECURSIVE BodyStream_poll_next(_)
\* BodyStream::poll_next: ready! returns Pending at once, an empty Ok chunk
\* goes round the loop, anything else is returned
BodyStream_poll_next(self) ==
    LET p == Stream_poll_next(self.stream)
        next == [self EXCEPT !.stream = p.stream]
    IN  IF p.item.t = "Pending" THEN [poll |-> ItemPending, self |-> next]
        ELSE IF p.item.t = "Ok" /\ p.item.bytes.len = 0
        THEN BodyStream_poll_next(next)
        ELSE [poll |-> p.item, self |-> next]

----------------------------------------------------------------------------
(* MessageBody: a size and a chunk sequence.  chunks holds the lengths of   *)
(* the chunks still to come, term how the sequence ends ("end": None,       *)
(* "err": Some(Err)), next the number of the next chunk, state whether the  *)
(* terminal item was already returned.                                      *)

MessageBody(size, chunks, term) ==
    [size |-> size, chunks |-> chunks, term |-> term, next |-> 1,
     state |-> "live", repolled |-> FALSE]

\* body.size(), of the adapter or of another producer
MessageBody_size(body) ==
    IF "stream" \in DOMAIN body THEN BodyStream_size(body) ELSE body.size

\* one ready answer of body.poll_next: [item, bytes, body]
MessageBody_poll_next(body) ==
    IF "stream" \in DOMAIN body
    THEN \* the body is a BodyStream
         LET r == BodyStream_poll_next(body)
         IN  [item |-> CASE r.poll.t = "Ok" -> "chunk"
                         [] r.poll.t = "Err" -> "err"
                         [] r.poll.t = "None" -> "end"
                         [] OTHER -> "pending",
              bytes |-> r.poll.bytes, body |-> r.self]
    ELSE IF body.state # "live"
    THEN \* polled after the terminal item: the contract is broken
         [item |-> "end", bytes |-> Bytes_new,
          body |-> [body EXCEPT !.repolled = TRUE]]
    ELSE IF body.chunks # <<>>
    THEN [item |-> "chunk",
          bytes |-> Bytes(body.next, 0, Head(body.chunks)),
          body |-> [body EXCEPT !.chunks = Tail(@), !.next = @ + 1]]
    ELSE IF body.term = "err"
    THEN [item |-> "err", bytes |-> Bytes_new,
          body |-> [body EXCEPT !.state = "failed"]]
    ELSE [item |-> "end", bytes |-> Bytes_new,
          body |-> [body EXCEPT !.state = "finished"]]

----------------------------------------------------------------------------
(* prepare_response                                                         *)
(* A header map is a sequence of <<name, value>> pairs.                     *)

\* the places of the values of a name in the iteration order
entry(headers, name) == {i \in 1..Len(headers) : headers[i][1] = name}

\* HeaderMap::insert: the value replaces every value of the name, the name
\* keeping its place in the iteration order; a new name goes to the end
insert(headers, name, value) ==
    IF entry(headers, name) = {} THEN Append(headers, <<name, value>>)
    ELSE LET first == CHOOSE i \in entry(headers, name) :
                          \A j \in entry(headers, name) : i <= j
         IN  SubSeq(headers, 1, first - 1)
             \o <<<<name, value>>>>
             \o SelectSeq(SubSeq(headers, first + 1, Len(headers)),
                          LAMBDA h : h[1] # name)

\* HeaderMap::append: the value is added after the values of the name, a
\* new name goes to the end
append(headers, name, value) ==
    IF entry(headers, name) = {} THEN Append(headers, <<name, value>>)
    ELSE LET last == CHOOSE i \in entry(headers, name) :
                         \A j \in entry(headers, name) : i >= j
         IN  SubSeq(headers, 1, last)
             \o <<<<name, value>>>>
             \o SubSeq(headers, last + 1, Len(headers))

Digit == <<"0", "1", "2", "3", "4", "5", "6", "7", "8", "9">>

\* itoa::Buffer::format
RECURSIVE itoa_format(_)
itoa_format(n) ==
    IF n < 10 THEN Digit[n + 1]
    ELSE itoa_format(n \div 10) \o Digit[(n % 10) + 1]

\* the "copy headers" loop setting each header with insert
RECURSIVE copy_headers_insert(_, _, _, _)
copy_headers_insert(hdrs, i, skip_len, acc) ==
    IF i > Len(hdrs) THEN acc
    ELSE LET key == hdrs[i][1]
             value == hdrs[i][2]
         IN  IF key \in {CONNECTION, TRANSFER_ENCODING}
             THEN copy_headers_insert(hdrs, i + 1, skip_len, acc)
             ELSE IF key = CONTENT_LENGTH /\ skip_len
             THEN copy_headers_insert(hdrs, i + 1, skip_len, acc)
             ELSE copy_headers_insert(hdrs, i + 1, skip_len,
                      [headers |-> insert(acc.headers, key, value),
                       has_date |-> acc.has_date \/ key = DATE])

\* the "copy headers" loop without the CONTENT_LENGTH arm
RECURSIVE copy_headers_keep_len(_, _, _, _)
copy_headers_keep_len(hdrs, i, skip_len, acc) ==
    IF i > Len(hdrs) THEN acc
    ELSE LET key == hdrs[i][1]
             value == hdrs[i][2]
         IN  IF key \in {CONNECTION, TRANSFER_ENCODING}
             THEN copy_headers_keep_len(hdrs, i + 1, skip_len, acc)
             ELSE copy_headers_keep_len(hdrs, i + 1, skip_len,
                      [headers |-> append(acc.headers, key, value),
                       has_date |-> acc.has_date \/ key = DATE])

\* the "copy headers" loop from entry i on; acc = [headers, has_date]
RECURSIVE copy_headers(_, _, _, _)
copy_headers(hdrs, i, skip_len, acc) ==
    IF i > Len(hdrs) THEN acc
    ELSE LET key == hdrs[i][1]
             value == hdrs[i][2]
         IN  IF key \in {CONNECTION, TRANSFER_ENCODING}
             THEN copy_headers(hdrs, i + 1, skip_len, acc)
             ELSE IF key = CONTENT_LENGTH /\ skip_len
             THEN copy_headers(hdrs, i + 1, skip_len, acc)
             ELSE copy_headers(hdrs, i + 1, skip_len,
                      [headers |-> append(acc.headers, key, value),
                       has_date |-> acc.has_date \/ key = DATE])

\* the size after the status-code match
status_size(status, size) ==
    IF status \in {NO_CONTENT, CONTINUE, PROCESSING} THEN BodySize_None
    ELSE IF status = SWITCHING_PROTOCOLS THEN BodySize_Stream
    ELSE size

\* prepare_response with SWITCHING_PROTOCOLS leaving skip_len as it is
prepare_response_upgrade_keeps_len(config, head, size) ==
    LET skip_len == size # BodySize_Stream
        size2 == status_size(head.status, size)
        h1 == IF size2.t = "Empty" THEN insert(<<>>, CONTENT_LENGTH, "0")
              ELSE IF size2.t = "Sized"
              THEN insert(<<>>, CONTENT_LENGTH, itoa_format(size2.n))
              ELSE <<>>
        cp == copy_headers(head.headers, 1, skip_len,
                           [headers |-> h1, has_date |-> FALSE])
        h2 == IF ~cp.has_date THEN insert(cp.headers, DATE, config.date)
              ELSE cp.headers
    IN  [res |-> [status |-> head.status, version |-> HTTP_2, headers |-> h2],
         size |-> size2]

\* prepare_response setting the date header whatever was copied
prepare_response_date_always(config, head, size) ==
    LET skip_len == (size # BodySize_Stream) \/ head.status = SWITCHING_PROTOCOLS
        size2 == status_size(head.status, size)
        h1 == IF size2.t = "Empty" THEN insert(<<>>, CONTENT_LENGTH, "0")
              ELSE IF size2.t = "Sized"
              THEN insert(<<>>, CONTENT_LENGTH, itoa_format(size2.n))
              ELSE <<>>
        cp == copy_headers(head.headers, 1, skip_len,
                           [headers |-> h1, has_date |-> FALSE])
    IN  [res |-> [status |-> head.status, version |-> HTTP_2,
                  headers |-> insert(cp.headers, DATE, config.date)],
         size |-> size2]

\* prepare_response(config, head, &mut size): [res, size]
prepare_response(config, head, size) ==
    LET skip_len == (size # BodySize_Stream) \/ head.status = SWITCHING_PROTOCOLS
        size2 == status_size(head.status, size)
        h1 == IF size2.t = "Empty" THEN insert(<<>>, CONTENT_LENGTH, "0")
              ELSE IF size2.t = "Sized"
              THEN insert(<<>>, CONTENT_LENGTH, itoa_format(size2.n))
              ELSE <<>>
        cp == copy_headers(head.headers, 1, skip_len,
                           [headers |-> h1, has_date |-> FALSE])
        h2 == IF ~cp.has_date THEN insert(cp.headers, DATE, config.date)
              ELSE cp.headers
    IN  [res |-> [status |-> head.status, version |-> HTTP_2, headers |-> h2],
         size |-> size2]

----------------------------------------------------------------------------
(* prepare_response of the HTTP/3 dispatcher *)

\* the "copy headers" loop from entry i on; acc = [headers, has_date]
RECURSIVE h3_copy_headers(_, _, _, _)
h3_copy_headers(hdrs, i, skip_len, acc) ==
    IF i > Len(hdrs) THEN acc
    ELSE LET key == hdrs[i][1]
             value == hdrs[i][2]
             next == h3_copy_headers(hdrs, i + 1, skip_len, acc)
         IN  CASE key = CONNECTION \/ key = TRANSFER_ENCODING -> next
               [] key = CONTENT_LENGTH /\ skip_len -> next
               [] OTHER ->
                    h3_copy_headers(hdrs, i + 1, skip_len,
                        [headers |-> append(acc.headers, key, value),
                         has_date |-> IF key = DATE THEN TRUE ELSE acc.has_date])

\* the HTTP/3 prepare_response with the 204, 100 and 102 arm setting skip_len
h3_prepare_response_no_content_skips(config, head, size) ==
    LET skip_len0 == size # BodySize_Stream
        m == CASE head.status \in {NO_CONTENT, CONTINUE, PROCESSING} ->
                    [skip_len |-> TRUE, size |-> BodySize_None]
               [] head.status = SWITCHING_PROTOCOLS ->
                    [skip_len |-> TRUE, size |-> BodySize_Stream]
               [] OTHER -> [skip_len |-> skip_len0, size |-> size]
        h1 == CASE m.size.t \in {"None", "Stream"} -> <<>>
                [] m.size.t = "Empty" -> insert(<<>>, CONTENT_LENGTH, "0")
                [] m.size.t = "Sized" ->
                     insert(<<>>, CONTENT_LENGTH, itoa_format(m.size.n))
        cp == h3_copy_headers(head.headers, 1, m.skip_len,
                              [headers |-> h1, has_date |-> FALSE])
        h2 == IF ~cp.has_date THEN insert(cp.headers, DATE, config.date)
              ELSE cp.headers
    IN  [res |-> [status |-> head.status, version |-> HTTP_3, headers |-> h2],
         size |-> m.size]

\* prepare_response(&config, head, &mut size): [res, size]
h3_prepare_response(config, head, size) ==
    LET skip_len0 == size # BodySize_Stream
        m == CASE head.status \in {NO_CONTENT, CONTINUE, PROCESSING} ->
                    [skip_len |-> skip_len0, size |-> BodySize_None]
               [] head.status = SWITCHING_PROTOCOLS ->
                    [skip_len |-> TRUE, size |-> BodySize_Stream]
               [] OTHER -> [skip_len |-> skip_len0, size |-> size]
        h1 == CASE m.size.t \in {"None", "Stream"} -> <<>>
                [] m.size.t = "Empty" -> insert(<<>>, CONTENT_LENGTH, "0")
                [] m.size.t = "Sized" ->
                     insert(<<>>, CONTENT_LENGTH, itoa_format(m.size.n))
        cp == h3_copy_headers(head.headers, 1, m.skip_len,
                              [headers |-> h1, has_date |-> FALSE])
        h2 == IF ~cp.has_date THEN insert(cp.headers, DATE, config.date)
              ELSE cp.headers
    IN  [res |-> [status |-> head.status, version |-> HTTP_3, headers |-> h2],
         size |-> m.size]

----------------------------------------------------------------------------
(* State *)

VARIABLES
    proto,      \* the dispatcher serving the connection: "h2" or "h3"
    conn,       \* output of the Dispatcher future: "pending", "Ok" or "Err"
    accepts,    \* what accept answered, in order: "Stream", "None", "Err"
    accepted,   \* number of streams accept has handed out
    svc_calls,  \* streams for which flow.service.call(req) was made, in order
    task,       \* per stream: the state of the task spawned for it
    call        \* one call of prepare_response: its arguments and its result

vars == <<proto, conn, accepts, accepted, svc_calls, task, call>>

Streams == 1..MaxStreams

\* DispatchError
DispatchError == {"SendResponse", "SendData", "ResponseBody"}

NoBody == MessageBody(BodySize_None, <<>>, "end")

(* The state of one spawned task.  pc is the await it is suspended on:      *)
(* "idle" (not spawned), "service" (fut.await), "body" (the poll_next       *)
(* poll_fn), "capacity" (the poll_capacity poll_fn), "done"; in the HTTP/3  *)
(* task also "h3_head" (send_response.await), "h3_data" (send_data.await)   *)
(* and "h3_finish" (finish.await).  fut is what fut.await returned ("Ok"    *)
(* or "Err"), res the value handle_response returned, log the level the     *)
(* task logged it at, trace every call made on the body and on the stream's *)
(* send handle.                                                             *)
IdleTask ==
    [pc |-> "idle", body |-> NoBody, chunk |-> Bytes_new, fut |-> "pending",
     res |-> "pending", log |-> "none", trace |-> <<>>]

\* no call of prepare_response is under way
NoCall == [state |-> "none"]

Init ==
    /\ proto \in {"h2", "h3"}
    /\ conn = "pending"
    /\ accepts = <<>>
    /\ accepted = 0
    /\ svc_calls = <<>>
    /\ task = [s \in Streams |-> IdleTask]
    /\ call = NoCall

----------------------------------------------------------------------------
(* The spawned task and handle_response *)

\* the "log error" match of the spawned task
log_level(res) ==
    CASE res = "SendResponse" -> "trace"
      [] res = "SendData" -> "warn"
      [] res = "ResponseBody" -> "error"
      [] OTHER -> "none"

\* handle_response returns res; the task logs it and ends
task_return(t, res) ==
    [t EXCEPT !.pc = "done", !.res = res, !.log = log_level(res)]

called(t, ev) == [t EXCEPT !.trace = Append(@, ev)]

\* reserve_capacity asking for the whole remainder
reserve_capacity_uncapped(t) ==
    [called(t, [op |-> "reserve_capacity", n |-> t.chunk.len])
        EXCEPT !.pc = "capacity"]

\* stream.reserve_capacity(cmp::min(chunk.len(), CHUNK_SIZE)), then the await
reserve_capacity(t) ==
    [called(t, [op |-> "reserve_capacity", n |-> Min(t.chunk.len, CHUNK_SIZE)])
        EXCEPT !.pc = "capacity"]

\* handle_response_head going on to the body phase on eof
handle_response_head_no_eof_return(t, resp, config, sent) ==
    LET size == MessageBody_size(resp.body)
        p == prepare_response(config, resp.head, size)
        eof == is_eof(p.size)
        t1 == called([t EXCEPT !.body = resp.body],
                     [op |-> "send_response", res |-> p.res, eof |-> eof,
                      ok |-> sent])
    IN  IF ~sent THEN task_return(t1, "SendResponse")
        ELSE [t1 EXCEPT !.pc = "body"]

\* handle_response_head mapping the send_response error with
\* DispatchError::SendData
handle_response_head_send_data(t, resp, config, sent) ==
    LET size == MessageBody_size(resp.body)
        p == prepare_response(config, resp.head, size)
        eof == is_eof(p.size)
        t1 == called([t EXCEPT !.body = resp.body],
                     [op |-> "send_response", res |-> p.res, eof |-> eof,
                      ok |-> sent])
    IN  IF ~sent THEN task_return(t1, "SendData")
        ELSE IF eof THEN task_return(t1, "Ok")
        ELSE [t1 EXCEPT !.pc = "body"]

\* handle_response from its start to the first body poll: prepare the head,
\* send it (sent: whether send_response succeeded), return on eof
handle_response_head(t, resp, config, sent) ==
    LET size == MessageBody_size(resp.body)
        p == prepare_response(config, resp.head, size)
        eof == is_eof(p.size)
        t1 == called([t EXCEPT !.body = resp.body],
                     [op |-> "send_response", res |-> p.res, eof |-> eof,
                      ok |-> sent])
    IN  IF ~sent THEN task_return(t1, "SendResponse")
        ELSE IF eof THEN task_return(t1, "Ok")
        ELSE [t1 EXCEPT !.pc = "body"]

\* handle_response_body sending the last frame without the end-of-stream flag
handle_response_body_unmarked(t, sent) ==
    LET p == MessageBody_poll_next(t.body)
        t1 == called([t EXCEPT !.body = p.body],
                     [op |-> "poll_next", item |-> p.item, bytes |-> p.bytes])
    IN  CASE p.item = "err" -> task_return(t1, "ResponseBody")
          [] p.item = "chunk" -> reserve_capacity([t1 EXCEPT !.chunk = p.bytes])
          [] p.item = "pending" -> t1
          [] OTHER ->
               task_return(called(t1, [op |-> "send_data", bytes |-> Bytes_new,
                                       eos |-> FALSE, ok |-> sent]),
                           IF sent THEN "Ok" ELSE "SendData")

\* handle_response_body closing the stream after a body error
handle_response_body_err_eos(t, sent) ==
    LET p == MessageBody_poll_next(t.body)
        t1 == called([t EXCEPT !.body = p.body],
                     [op |-> "poll_next", item |-> p.item, bytes |-> p.bytes])
        eos == called(t1, [op |-> "send_data", bytes |-> Bytes_new,
                           eos |-> TRUE, ok |-> sent])
    IN  CASE p.item = "err" -> task_return(eos, "ResponseBody")
          [] p.item = "chunk" -> reserve_capacity([t1 EXCEPT !.chunk = p.bytes])
          [] p.item = "pending" -> t1
          [] OTHER -> task_return(eos, IF sent THEN "Ok" ELSE "SendData")

\* handle_response_body logging a body error and polling on
handle_response_body_continue(t, sent) ==
    LET p == MessageBody_poll_next(t.body)
        t1 == called([t EXCEPT !.body = p.body],
                     [op |-> "poll_next", item |-> p.item, bytes |-> p.bytes])
    IN  CASE p.item = "err" -> [t1 EXCEPT !.log = "error"]
          [] p.item = "chunk" -> reserve_capacity([t1 EXCEPT !.chunk = p.bytes])
          [] p.item = "pending" -> t1
          [] OTHER ->
               task_return(called(t1, [op |-> "send_data", bytes |-> Bytes_new,
                                       eos |-> TRUE, ok |-> sent]),
                           IF sent THEN "Ok" ELSE "SendData")

\* handle_response_body polling on after an empty chunk
handle_response_body_skip_empty(t, sent) ==
    LET p == MessageBody_poll_next(t.body)
        t1 == called([t EXCEPT !.body = p.body],
                     [op |-> "poll_next", item |-> p.item, bytes |-> p.bytes])
    IN  CASE p.item = "err" -> task_return(t1, "ResponseBody")
          [] p.item = "chunk" ->
               IF p.bytes.len = 0 THEN t1
               ELSE reserve_capacity([t1 EXCEPT !.chunk = p.bytes])
          [] p.item = "pending" -> t1
          [] OTHER ->
               task_return(called(t1, [op |-> "send_data", bytes |-> Bytes_new,
                                       eos |-> TRUE, ok |-> sent]),
                           IF sent THEN "Ok" ELSE "SendData")

\* handle_response when the body poll is ready: a chunk starts the send loop,
\* an error ends the pipeline, Pending suspends the task on the poll again,
\* the end sends the end-of-stream frame
\* (sent: whether that send_data succeeded)
handle_response_body(t, sent) ==
    LET p == MessageBody_poll_next(t.body)
        t1 == called([t EXCEPT !.body = p.body],
                     [op |-> "poll_next", item |-> p.item, bytes |-> p.bytes])
    IN  CASE p.item = "err" -> task_return(t1, "ResponseBody")
          [] p.item = "chunk" -> reserve_capacity([t1 EXCEPT !.chunk = p.bytes])
          [] p.item = "pending" -> t1
          [] OTHER ->
               task_return(called(t1, [op |-> "send_data", bytes |-> Bytes_new,
                                       eos |-> TRUE, ok |-> sent]),
                           IF sent THEN "Ok" ELSE "SendData")

\* handle_response_capacity waiting on when the stream was closed
handle_response_capacity_closed_waits(t, grant, sent) ==
    LET t1 == called(t, [op |-> "poll_capacity", res |-> grant.t,
                         cap |-> grant.cap])
    IN  CASE grant.t = "None" -> [t1 EXCEPT !.pc = "closed"]
          [] grant.t = "Err" -> task_return(t1, "SendData")
          [] OTHER ->
               LET len == t.chunk.len
                   sp == split_to(t.chunk, Min(grant.cap, len))
                   t2 == called([t1 EXCEPT !.chunk = sp.chunk],
                                [op |-> "send_data", bytes |-> sp.bytes,
                                 eos |-> FALSE, ok |-> sent])
               IN  IF ~sent THEN task_return(t2, "SendData")
                   ELSE IF t2.chunk.len = 0 THEN [t2 EXCEPT !.pc = "body"]
                   ELSE reserve_capacity(t2)

\* handle_response_capacity leaving the send loop after one frame
handle_response_capacity_break(t, grant, sent) ==
    LET t1 == called(t, [op |-> "poll_capacity", res |-> grant.t,
                         cap |-> grant.cap])
    IN  CASE grant.t = "None" -> task_return(t1, "Ok")
          [] grant.t = "Err" -> task_return(t1, "SendData")
          [] OTHER ->
               LET len == t.chunk.len
                   sp == split_to(t.chunk, Min(grant.cap, len))
                   t2 == called([t1 EXCEPT !.chunk = sp.chunk],
                                [op |-> "send_data", bytes |-> sp.bytes,
                                 eos |-> FALSE, ok |-> sent])
               IN  IF ~sent THEN task_return(t2, "SendData")
                   ELSE [t2 EXCEPT !.pc = "body"]

\* handle_response_capacity treating a closed stream as a send error
handle_response_capacity_none_err(t, grant, sent) ==
    LET t1 == called(t, [op |-> "poll_capacity", res |-> grant.t,
                         cap |-> grant.cap])
    IN  CASE grant.t \in {"None", "Err"} -> task_return(t1, "SendData")
          [] OTHER ->
               LET len == t.chunk.len
                   sp == split_to(t.chunk, Min(grant.cap, len))
                   t2 == called([t1 EXCEPT !.chunk = sp.chunk],
                                [op |-> "send_data", bytes |-> sp.bytes,
                                 eos |-> FALSE, ok |-> sent])
               IN  IF ~sent THEN task_return(t2, "SendData")
                   ELSE IF t2.chunk.len = 0 THEN [t2 EXCEPT !.pc = "body"]
                   ELSE reserve_capacity(t2)

\* handle_response_capacity holding a grant smaller than the chunk back and
\* waiting for capacity for the whole chunk
handle_response_capacity_coalesce(t, grant, sent) ==
    LET t1 == called(t, [op |-> "poll_capacity", res |-> grant.t,
                         cap |-> grant.cap])
    IN  CASE grant.t = "None" -> task_return(t1, "Ok")
          [] grant.t = "Err" -> task_return(t1, "SendData")
          [] grant.cap < t.chunk.len -> reserve_capacity(t1)
          [] OTHER ->
               LET sp == split_to(t.chunk, t.chunk.len)
                   t2 == called([t1 EXCEPT !.chunk = sp.chunk],
                                [op |-> "send_data", bytes |-> sp.bytes,
                                 eos |-> FALSE, ok |-> sent])
               IN  IF ~sent THEN task_return(t2, "SendData")
                   ELSE [t2 EXCEPT !.pc = "body"]

\* handle_response when poll_capacity is ready with grant (None, Some(Err) or
\* Some(Ok(cap))); sent: whether send_data succeeded
handle_response_capacity(t, grant, sent) ==
    LET t1 == called(t, [op |-> "poll_capacity", res |-> grant.t,
                         cap |-> grant.cap])
    IN  CASE grant.t = "None" -> task_return(t1, "Ok")
          [] grant.t = "Err" -> task_return(t1, "SendData")
          [] OTHER ->
               LET len == t.chunk.len
                   sp == split_to(t.chunk, Min(grant.cap, len))
                   t2 == called([t1 EXCEPT !.chunk = sp.chunk],
                                [op |-> "send_data", bytes |-> sp.bytes,
                                 eos |-> FALSE, ok |-> sent])
               IN  IF ~sent THEN task_return(t2, "SendData")
                   ELSE IF t2.chunk.len = 0 THEN [t2 EXCEPT !.pc = "body"]
                   ELSE reserve_capacity(t2)

\* Response::from_error(err.into())
from_error(err) ==
    [head |-> [status |-> err.status, headers |-> <<>>], body |-> err.body]

\* the match on fut.await of the spawned task
service_response(r) == IF r.ok THEN r.res ELSE from_error(r.err)

\* the task once fut.await has returned r
resolved(t, r) == [t EXCEPT !.fut = IF r.ok THEN "Ok" ELSE "Err"]

----------------------------------------------------------------------------
(* Actions *)

\* Dispatcher::poll, poll_accept answers None
poll_accept_none ==
    /\ proto = "h2"
    /\ conn = "pending"
    /\ conn' = "Ok"
    /\ accepts' = Append(accepts, "None")
    /\ UNCHANGED <<call, proto, accepted, svc_calls, task>>

\* poll_accept_err with the error dropped and the loop going on
poll_accept_err_ignored ==
    /\ proto = "h2"
    /\ conn = "pending"
    /\ conn' = "pending"
    /\ accepts' = Append(accepts, "Err")
    /\ UNCHANGED <<call, proto, accepted, svc_calls, task>>

\* Dispatcher::poll, poll_accept answers Some(Err(err))
poll_accept_err ==
    /\ proto = "h2"
    /\ conn = "pending"
    /\ conn' = "Err"
    /\ accepts' = Append(accepts, "Err")
    /\ UNCHANGED <<call, proto, accepted, svc_calls, task>>

\* poll_accept_stream with the loop awaiting the pipeline it started before it
\* accepts again
poll_accept_stream_awaiting(limit) ==
    /\ proto = "h2"
    /\ conn = "pending"
    /\ accepted < limit
    /\ \A s \in Streams : task[s].pc \in {"idle", "done"}
    /\ accepts' = Append(accepts, "Stream")
    /\ accepted' = accepted + 1
    /\ svc_calls' = Append(svc_calls, accepted + 1)
    /\ task' = [task EXCEPT ![accepted + 1].pc = "service"]
    /\ UNCHANGED <<call, proto, conn>>

\* poll_accept_stream with the loop itself sending a head on the new stream
poll_accept_stream_sending(limit) ==
    /\ proto = "h2"
    /\ conn = "pending"
    /\ accepted < limit
    /\ accepts' = Append(accepts, "Stream")
    /\ accepted' = accepted + 1
    /\ svc_calls' = Append(svc_calls, accepted + 1)
    /\ task' = [task EXCEPT
                  ![accepted + 1] =
                      called([@ EXCEPT !.pc = "service"],
                             [op |-> "send_response",
                              res |-> [status |-> CONTINUE, version |-> HTTP_2,
                                       headers |-> <<>>],
                              eof |-> FALSE, ok |-> TRUE])]
    /\ UNCHANGED <<call, proto, conn>>

\* poll_accept_stream with the service call left to the spawned task
poll_accept_stream_deferred(limit) ==
    /\ proto = "h2"
    /\ conn = "pending"
    /\ accepted < limit
    /\ accepts' = Append(accepts, "Stream")
    /\ accepted' = accepted + 1
    /\ task' = [task EXCEPT ![accepted + 1].pc = "service"]
    /\ UNCHANGED <<call, proto, conn, svc_calls>>

\* Dispatcher::poll, poll_accept answers Some(Ok((req, tx))): the request is
\* built, the service is called and the task is spawned
poll_accept_stream(limit) ==
    /\ proto = "h2"
    /\ conn = "pending"
    /\ accepted < limit
    /\ accepts' = Append(accepts, "Stream")
    /\ accepted' = accepted + 1
    /\ svc_calls' = Append(svc_calls, accepted + 1)
    /\ task' = [task EXCEPT ![accepted + 1].pc = "service"]
    /\ UNCHANGED <<call, proto, conn>>

\* fut_ready with the stream of a failed service call left without a response
fut_ready_drop(s, r, config, sent) ==
    /\ proto = "h2"
    /\ task[s].pc = "service"
    /\ task' = [task EXCEPT
                  ![s] = IF r.ok
                         THEN handle_response_head(resolved(@, r), r.res, config, sent)
                         ELSE task_return(resolved(@, r), "Ok")]
    /\ UNCHANGED <<call, proto, conn, accepts, accepted, svc_calls>>

\* the spawned task resumes from fut.await with the service's result r
fut_ready(s, r, config, sent) ==
    /\ proto = "h2"
    /\ task[s].pc = "service"
    /\ task' = [task EXCEPT
                  ![s] = handle_response_head(resolved(@, r), service_response(r),
                                              config, sent)]
    /\ UNCHANGED <<call, proto, conn, accepts, accepted, svc_calls>>

\* body_ready with handle_response awaited and its error returned by the loop
body_ready_propagating(s, sent) ==
    /\ proto = "h2"
    /\ task[s].pc = "body"
    /\ task' = [task EXCEPT ![s] = handle_response_body(@, sent)]
    /\ conn' = IF task'[s].res \in DispatchError THEN "Err" ELSE conn
    /\ UNCHANGED <<call, proto, accepts, accepted, svc_calls>>

\* the spawned task resumes from the body poll
body_ready(s, sent) ==
    /\ proto = "h2"
    /\ task[s].pc = "body"
    /\ task' = [task EXCEPT ![s] = handle_response_body(@, sent)]
    /\ UNCHANGED <<call, proto, conn, accepts, accepted, svc_calls>>

\* number of Some(Ok(0)) answers of poll_capacity in a trace
ZeroGrants(trace) ==
    Cardinality({i \in 1..Len(trace) :
        /\ trace[i].op = "poll_capacity"
        /\ trace[i].res = "Ok"
        /\ trace[i].cap = 0})

\* the spawned task resumes from the capacity poll
capacity_ready(s, grant, sent) ==
    /\ task[s].pc = "capacity"
    /\ (grant.t = "Ok" /\ grant.cap = 0)
          => ZeroGrants(task[s].trace) < MaxZeroGrants
    /\ task' = [task EXCEPT ![s] = handle_response_capacity(@, grant, sent)]
    /\ UNCHANGED <<call, proto, conn, accepts, accepted, svc_calls>>

----------------------------------------------------------------------------
(* The HTTP/3 dispatcher *)

\* h3_task_return ending the task without finish after an error
h3_task_return_unfinished(t, res) ==
    IF res = "Ok"
    THEN [called(t, [op |-> "finish"]) EXCEPT
             !.pc = "h3_finish", !.res = res, !.log = "none"]
    ELSE [t EXCEPT !.pc = "done", !.res = res, !.log = "error"]

\* handle_response returned res: the task logs an error and calls
\* stream.finish()
h3_task_return(t, res) ==
    [called(t, [op |-> "finish"]) EXCEPT
        !.pc = "h3_finish", !.res = res,
        !.log = IF res = "Ok" THEN "none" ELSE "error"]

\* handle_response from its start to send_response(res).await
h3_handle_response_head(t, resp, config) ==
    LET size == MessageBody_size(resp.body)
        p == h3_prepare_response(config, resp.head, size)
    IN  [called([t EXCEPT !.body = resp.body],
                [op |-> "send_response", res |-> p.res])
            EXCEPT !.pc = "h3_head"]

\* handle_response when send_response(res).await is ready
h3_handle_response_sent(t, sent) ==
    IF ~sent THEN h3_task_return(t, "Err") ELSE [t EXCEPT !.pc = "body"]

\* handle_response when the body poll is ready
h3_handle_response_body(t) ==
    LET p == MessageBody_poll_next(t.body)
        t1 == called([t EXCEPT !.body = p.body],
                     [op |-> "poll_next", item |-> p.item, bytes |-> p.bytes])
    IN  CASE p.item = "err" -> h3_task_return(t1, "Err")
          [] p.item = "chunk" ->
               [called(t1, [op |-> "send_data", bytes |-> p.bytes])
                   EXCEPT !.pc = "h3_data"]
          [] p.item = "pending" -> t1
          [] OTHER -> h3_task_return(t1, "Ok")

\* handle_response when send_data(bytes).await is ready
h3_handle_response_data(t, sent) ==
    IF ~sent THEN h3_task_return(t, "Err") ELSE [t EXCEPT !.pc = "body"]

\* Dispatcher::new, connection.accept() answers Ok(None)
h3_accept_none ==
    /\ proto = "h3"
    /\ conn = "pending"
    /\ conn' = "Ok"
    /\ accepts' = Append(accepts, "None")
    /\ UNCHANGED <<call, proto, accepted, svc_calls, task>>

\* Dispatcher::new, connection.accept() answers Err(err)
h3_accept_err ==
    /\ proto = "h3"
    /\ conn = "pending"
    /\ conn' = "Err"
    /\ accepts' = Append(accepts, "Err")
    /\ UNCHANGED <<call, proto, accepted, svc_calls, task>>

\* Dispatcher::new, connection.accept() answers Ok(Some((req, stream)))
h3_accept_stream(limit) ==
    /\ proto = "h3"
    /\ conn = "pending"
    /\ accepted < limit
    /\ accepts' = Append(accepts, "Stream")
    /\ accepted' = accepted + 1
    /\ svc_calls' = Append(svc_calls, accepted + 1)
    /\ task' = [task EXCEPT ![accepted + 1].pc = "service"]
    /\ UNCHANGED <<call, proto, conn>>

\* the spawned task resumes from fut.await with the service's result r
h3_fut_ready(s, r, config) ==
    /\ proto = "h3"
    /\ task[s].pc = "service"
    /\ task' = [task EXCEPT
                  ![s] = h3_handle_response_head(resolved(@, r),
                                                 service_response(r), config)]
    /\ UNCHANGED <<call, proto, conn, accepts, accepted, svc_calls>>

\* the spawned task resumes from send_response(res).await
h3_head_ready(s, sent) ==
    /\ task[s].pc = "h3_head"
    /\ task' = [task EXCEPT ![s] = h3_handle_response_sent(@, sent)]
    /\ UNCHANGED <<call, proto, conn, accepts, accepted, svc_calls>>

\* the spawned task resumes from the body poll
h3_body_ready(s) ==
    /\ proto = "h3"
    /\ task[s].pc = "body"
    /\ task' = [task EXCEPT ![s] = h3_handle_response_body(@)]
    /\ UNCHANGED <<call, proto, conn, accepts, accepted, svc_calls>>

\* the spawned task resumes from send_data(bytes).await
h3_data_ready(s, sent) ==
    /\ task[s].pc = "h3_data"
    /\ task' = [task EXCEPT ![s] = h3_handle_response_data(@, sent)]
    /\ UNCHANGED <<call, proto, conn, accepts, accepted, svc_calls>>

\* the spawned task resumes from stream.finish().await, logs its error,
\* and ends
h3_finish_ready(s, finished) ==
    /\ task[s].pc = "h3_finish"
    /\ task' = [task EXCEPT ![s] =
                  [called(@, [op |-> "finished", ok |-> finished])
                      EXCEPT !.pc = "done",
                             !.log = IF finished THEN @ ELSE "error"]]
    /\ UNCHANGED <<call, proto, conn, accepts, accepted, svc_calls>>

----------------------------------------------------------------------------
(* Inputs *)

RECURSIVE Sum(_)
Sum(seq) == IF seq = <<>> THEN 0 ELSE Head(seq) + Sum(Tail(seq))

ChunkSeqs ==
    {cs \in UNION {[1..n -> 0..MaxBytes] : n \in 0..MaxChunks} :
        Sum(cs) <= MaxBytes}

Dates == {"Thu, 01 Jan 1970 00:00:00 GMT"}
Configs == {[date |-> d] : d \in Dates}

GrantNone == [t |-> "None", cap |-> 0]
GrantErr == [t |-> "Err", cap |-> 0]
GrantOk(cap) == [t |-> "Ok", cap |-> cap]

Grants == {GrantNone, GrantErr} \cup {GrantOk(k) : k \in 0..MaxBytes}

Response(status, body) ==
    [ok |-> TRUE, res |-> [head |-> [status |-> status, headers |-> <<>>],
                           body |-> body]]

ServiceError(status, body) ==
    [ok |-> FALSE, err |-> [status |-> status, body |-> body]]

\* bodies whose declared size agrees with what they yield
Bodies ==
    {MessageBody(BodySize_None, <<>>, "end"),
     MessageBody(BodySize_Empty, <<>>, "end")}
    \cup {MessageBody(sz, cs, term) :
            sz \in {BodySize_Stream}, cs \in ChunkSeqs, term \in {"end", "err"}}
    \cup {MessageBody(BodySize_Sized(Sum(cs)), cs, "end") : cs \in ChunkSeqs}

\* the bodies answered with a status that overrides the size
OverrideBodies ==
    {MessageBody(BodySize_None, <<>>, "end"),
     MessageBody(BodySize_Empty, <<>>, "end"),
     MessageBody(BodySize_Sized(0), <<>>, "end"),
     MessageBody(BodySize_Sized(1), <<1>>, "end"),
     MessageBody(BodySize_Stream, <<1>>, "end")}

\* what the service of the single-pipeline specification answers
Results ==
    {Response(OK, b) : b \in Bodies}
    \cup {Response(st, b) :
            st \in {NO_CONTENT, CONTINUE, PROCESSING, SWITCHING_PROTOCOLS},
            b \in OverrideBodies}
    \cup {ServiceError(INTERNAL_SERVER_ERROR, MessageBody(BodySize_Empty, <<>>, "end")),
          ServiceError(INTERNAL_SERVER_ERROR, MessageBody(BodySize_Sized(1), <<1>>, "end"))}

\* what the service and the transport of the connection specification answer
ConnResults ==
    {Response(OK, MessageBody(BodySize_Sized(1), <<1>>, "end")),
     Response(OK, MessageBody(BodySize_Stream, <<>>, "err")),
     Response(NO_CONTENT, MessageBody(BodySize_None, <<>>, "end")),
     ServiceError(INTERNAL_SERVER_ERROR, MessageBody(BodySize_Empty, <<>>, "end"))}

ConnGrants == {GrantNone, GrantErr, GrantOk(1)}

----------------------------------------------------------------------------
(* Specifications *)

\* one connection, several streams in flight
Next ==
    \/ poll_accept_none
    \/ poll_accept_err
    \/ poll_accept_stream(MaxStreams)
    \/ \E s \in Streams, r \in ConnResults, c \in Configs, sent \in BOOLEAN :
          fut_ready(s, r, c, sent)
    \/ \E s \in Streams, sent \in BOOLEAN : body_ready(s, sent)
    \/ \E s \in Streams, g \in ConnGrants, sent \in BOOLEAN :
          capacity_ready(s, g, sent)
    \/ h3_accept_none
    \/ h3_accept_err
    \/ h3_accept_stream(MaxStreams)
    \/ \E s \in Streams, r \in ConnResults, c \in Configs : h3_fut_ready(s, r, c)
    \/ \E s \in Streams, sent \in BOOLEAN : h3_head_ready(s, sent)
    \/ \E s \in Streams : h3_body_ready(s)
    \/ \E s \in Streams, sent \in BOOLEAN : h3_data_ready(s, sent)
    \/ \E s \in Streams, finished \in BOOLEAN : h3_finish_ready(s, finished)

Spec == Init /\ [][Next]_vars

\* one connection, one stream, every body and every grant within the bounds
NextPipe ==
    \/ poll_accept_stream(1)
    \/ \E r \in Results, c \in Configs, sent \in BOOLEAN : fut_ready(1, r, c, sent)
    \/ \E sent \in BOOLEAN : body_ready(1, sent)
    \/ \E g \in Grants, sent \in BOOLEAN : capacity_ready(1, g, sent)

InitPipe == Init /\ proto = "h2"

SpecPipe == InitPipe /\ [][NextPipe]_vars

----------------------------------------------------------------------------
(* Properties of the connection: specification Spec *)

\* the pipeline of a task ended in an error
Failed(t) == t.res \notin {"pending", "Ok"}

\* the task is suspended on an await
Suspended(t) == t.pc \notin {"idle", "done"}

AcceptStream == poll_accept_stream(MaxStreams) \/ h3_accept_stream(MaxStreams)

\* the last element of a non-empty sequence
Last(seq) == seq[Len(seq)]

(* C1: isolation.  A step in which the pipeline of stream s ends in an     *)
(* error changes neither the state of the accept loop nor the state of any *)
(* other pipeline, and while the loop has not ended and a pipeline has     *)
(* failed, the loop can still accept the next stream.                      *)
C1_Isolation ==
    /\ [](\A s \in Streams :
            (Failed(task[s]) /\ conn = "pending" /\ accepted < MaxStreams)
                => ENABLED AcceptStream)
    /\ [][\A s \in Streams :
            (~Failed(task[s]) /\ Failed(task'[s]))
                => /\ conn' = conn
                   /\ accepts' = accepts
                   /\ accepted' = accepted
                   /\ \A u \in Streams \ {s} : task'[u] = task[u]]_vars

\* one stream failed on its body, a stream accepted after it completed with
\* success, and the loop is still accepting
C1_Witness ==
    /\ conn = "pending"
    /\ \E s, u \in Streams :
          /\ s < u
          /\ task[s].pc = "done" /\ task[s].res \in {"ResponseBody", "Err"}
          /\ task[u].pc = "done" /\ task[u].res = "Ok"

(* C2: the dispatch loop ends in exactly two ways.  Its output is Ok       *)
(* exactly when the last answer of accept was "no more streams" and Err    *)
(* exactly when it was a transport error; every answer before the last is  *)
(* a stream; only an accept step changes the output, no pipeline step      *)
(* does; and once the loop has ended nothing is accepted any more.         *)
C2_LoopEnds ==
    /\ [](/\ conn = "Ok" <=> (accepts # <<>> /\ Last(accepts) = "None")
          /\ conn = "Err" <=> (accepts # <<>> /\ Last(accepts) = "Err")
          /\ \A i \in 1..(Len(accepts) - 1) : accepts[i] = "Stream")
    /\ [][/\ conn' # conn =>
                (conn = "pending" /\ accepts' # accepts /\ task' = task)
          /\ conn # "pending" =>
                (conn' = conn /\ accepts' = accepts /\ accepted' = accepted)]_vars

\* the loop ended with the transport error after it had accepted a stream
\* whose pipeline failed on its own and was not what ended it
C2_Witness ==
    /\ conn = "Err"
    /\ accepts = <<"Stream", "Stream", "Err">>
    /\ \E s \in Streams : Failed(task[s])
    /\ \E s \in Streams : Suspended(task[s])

(* C3: the dispatch loop never waits for a pipeline.  Whatever the states  *)
(* of the pipelines, a loop that has not ended can accept the next stream, *)
(* and the step that accepts a stream leaves the loop accepting, starts    *)
(* the new pipeline at its service call and touches no other pipeline.     *)
C3_LoopNeverWaits ==
    /\ []((conn = "pending" /\ accepted < MaxStreams) => ENABLED AcceptStream)
    /\ [][accepted' # accepted =>
            /\ accepted' = accepted + 1
            /\ conn' = "pending"
            /\ task'[accepted'].pc = "service"
            /\ \A u \in Streams \ {accepted'} : task'[u] = task[u]]_vars

\* stream 2 was accepted and completed while the pipeline of stream 1 is
\* still suspended
C3_Witness ==
    /\ task[1].pc \in {"service", "body", "capacity"}
    /\ task[2].pc = "done"
    /\ task[2].res = "Ok"

----------------------------------------------------------------------------
(* Properties of one HTTP/2 pipeline: specification SpecPipe *)

\* the bytes a sequence of buffers holds, each byte named by the chunk it
\* comes from and its position in that chunk
RECURSIVE Expand(_)
Expand(bs) ==
    IF bs = <<>> THEN <<>>
    ELSE [i \in 1..Head(bs).len |-> <<Head(bs).src, Head(bs).off + i - 1>>]
            \o Expand(Tail(bs))

BytesOf(events) == [i \in 1..Len(events) |-> events[i].bytes]

IsChunk(e) == e.op = "poll_next" /\ e.item = "chunk"
IsBodyEnd(e) == e.op = "poll_next" /\ e.item = "end"
IsBodyErr(e) == e.op = "poll_next" /\ e.item = "err"
IsData(e) == e.op = "send_data" /\ ~e.eos
IsEos(e) == e.op = "send_data" /\ e.eos
IsClosed(e) == e.op = "poll_capacity" /\ e.res = "None"
IsGrantErr(e) == e.op = "poll_capacity" /\ e.res = "Err"

\* the chunks the body produced, in order
Produced(tr) == BytesOf(SelectSeq(tr, IsChunk))

\* the non-final data frames that were sent, in order
SentFrame(e) == IsData(e) /\ e.ok
SentData(tr) == BytesOf(SelectSeq(tr, SentFrame))

IsPrefix(a, b) == Len(a) <= Len(b) /\ SubSeq(b, 1, Len(a)) = a

\* the index of the first body poll after event i, or Len(tr) + 1
NextPoll(tr, i) ==
    LET later == {j \in (i + 1)..Len(tr) : tr[j].op = "poll_next"}
    IN  IF later = {} THEN Len(tr) + 1
        ELSE CHOOSE j \in later : \A k \in later : j <= k

\* the data frames sent for the chunk produced by event i
ChunkFrames(tr, i) == SentData(SubSeq(tr, i + 1, NextPoll(tr, i) - 1))

\* the send loop has left the chunk produced by event i of the task's trace
LeftChunk(t, i) == NextPoll(t.trace, i) <= Len(t.trace) \/ t.pc = "body"

(* C4: ordering within one stream.  The first call on the send handle is   *)
(* send_response and it is the only one; a data frame is sent only after   *)
(* the head was sent; and the bytes of the data frames sent so far are, in *)
(* order, a prefix of the bytes of the chunks the body produced so far, so *)
(* chunks go out in production order and each chunk in byte order.         *)
C4_StreamOrder ==
    \A s \in Streams :
        LET tr == task[s].trace
        IN  /\ \A i \in 1..Len(tr) :
                  /\ tr[i].op = "send_response" <=> i = 1
                  /\ i > 1 => tr[1].ok
            /\ IsPrefix(Expand(SentData(tr)), Expand(Produced(tr)))

\* two chunks were produced, the first went out in two pieces, and the
\* pipeline completed
C4_Witness ==
    /\ task[1].res = "Ok"
    /\ Produced(task[1].trace) = <<Bytes(1, 0, 2), Bytes(2, 0, 1)>>
    /\ SentData(task[1].trace) = <<Bytes(1, 0, 1), Bytes(1, 1, 1), Bytes(2, 0, 1)>>

(* C5: chunk-splitting conservation.  Once the send loop has left a chunk, *)
(* the data frames sent for it, concatenated, are exactly the chunk: every *)
(* byte once, in order.                                                    *)
C5_Conservation ==
    \A s \in Streams :
        LET tr == task[s].trace
        IN  \A i \in 1..Len(tr) :
                (IsChunk(tr[i]) /\ LeftChunk(task[s], i))
                    => Expand(ChunkFrames(tr, i)) = Expand(<<tr[i].bytes>>)

\* a chunk of 3 bytes went out in the frames of grants 1, 0 and 2
C5_Witness ==
    \E i \in 1..Len(task[1].trace) :
        /\ IsChunk(task[1].trace[i])
        /\ LeftChunk(task[1], i)
        /\ ChunkFrames(task[1].trace, i)
              = <<Bytes(1, 0, 1), Bytes(1, 1, 0), Bytes(1, 1, 2)>>

\* the size hint after the preparer is end-of-body for a response of this
\* status whose body declares this size
EofAfterPrepare(status, size) ==
    \/ status \in {NO_CONTENT, CONTINUE, PROCESSING}
    \/ /\ status # SWITCHING_PROTOCOLS
       /\ \/ size.t \in {"None", "Empty"}
          \/ (size.t = "Sized" /\ size.n = 0)

(* C6: the eof shortcut.  The head is sent with the end-of-stream flag set *)
(* exactly when the size hint after the preparer is end-of-body; a head    *)
(* sent with the flag is the only call the pipeline ever makes: it returns *)
(* success at once, the body is never polled and no data frame is sent.    *)
C6_EofShortcut ==
    \A s \in Streams :
        LET t == task[s]
            tr == t.trace
        IN  tr # <<>> =>
              /\ tr[1].eof = EofAfterPrepare(tr[1].res.status, t.body.size)
              /\ tr[1].eof =>
                    /\ Len(tr) = 1
                    /\ t.pc = "done"
                    /\ t.body.state = "live" /\ t.body.next = 1
                    /\ tr[1].ok => t.res = "Ok"
              /\ (~tr[1].eof /\ tr[1].ok /\ Len(tr) = 1) => t.pc = "body"

\* a 204 response whose body holds a chunk: the head carried the flag and the
\* pipeline returned success without polling the chunk
C6_Witness ==
    /\ task[1].res = "Ok"
    /\ task[1].trace[1].res.status = NO_CONTENT
    /\ task[1].trace[1].eof
    /\ task[1].body.chunks = <<1>>

(* C7: the final frame.  A body that finishes normally is answered by one  *)
(* zero-length data frame marked end-of-stream, sent right after the poll  *)
(* that reported the end; no other frame carries the mark and nothing is   *)
(* sent after it; and the pipeline reports success only if that frame was  *)
(* sent, or on the eof and the peer-closed paths.                          *)
C7_FinalFrame ==
    \A s \in Streams :
        LET t == task[s]
            tr == t.trace
        IN  /\ \A i \in 1..Len(tr) :
                  /\ IsBodyEnd(tr[i]) => (i < Len(tr) /\ IsEos(tr[i + 1]))
                  /\ (tr[i].op = "send_data" /\ tr[i].eos) =>
                        /\ i = Len(tr)
                        /\ tr[i].bytes.len = 0
                        /\ IsBodyEnd(tr[i - 1])
                        /\ t.pc = "done"
                        /\ t.res = (IF tr[i].ok THEN "Ok" ELSE "SendData")
            /\ t.res = "Ok" =>
                  \/ (IsEos(Last(tr)) /\ Last(tr).ok)
                  \/ (Len(tr) = 1 /\ tr[1].eof /\ tr[1].ok)
                  \/ IsClosed(Last(tr))

\* the pipeline succeeded by sending the final frame after two data frames
C7_Witness ==
    /\ task[1].res = "Ok"
    /\ IsEos(Last(task[1].trace))
    /\ Len(SentData(task[1].trace)) = 2

(* C8: a body failure ends the pipeline.  The poll that returned the error *)
(* is the last call the pipeline makes on the body or on the send handle,  *)
(* and the pipeline ends with ResponseBody, which it reports for no other  *)
(* reason.                                                                 *)
C8_BodyFailure ==
    \A s \in Streams :
        LET t == task[s]
            tr == t.trace
        IN  /\ \A i \in 1..Len(tr) :
                  IsBodyErr(tr[i]) =>
                      (i = Len(tr) /\ t.pc = "done" /\ t.res = "ResponseBody")
            /\ t.res = "ResponseBody" => IsBodyErr(Last(tr))

\* the body failed after one of its chunks had been sent
C8_Witness ==
    /\ task[1].res = "ResponseBody"
    /\ Len(SentData(task[1].trace)) >= 1

(* C9: peer closed.  When the capacity await reports no grant forthcoming  *)
(* the pipeline ends with success at that point: the await is its last     *)
(* call, so the rest of the chunk is not sent, no end-of-stream frame is   *)
(* sent and the body is not polled again.                                  *)
C9_PeerClosed ==
    \A s \in Streams :
        LET t == task[s]
            tr == t.trace
        IN  \A i \in 1..Len(tr) :
                IsClosed(tr[i]) =>
                    (i = Len(tr) /\ t.pc = "done" /\ t.res = "Ok")

\* the stream was closed with one byte of the chunk sent, one unsent and a
\* further chunk still in the body
C9_Witness ==
    /\ task[1].res = "Ok"
    /\ IsClosed(Last(task[1].trace))
    /\ task[1].chunk = Bytes(1, 1, 1)
    /\ task[1].body.chunks # <<>>

\* the call failed
IsFailure(e) ==
    \/ (e.op \in {"send_response", "send_data"} /\ ~e.ok)
    \/ IsGrantErr(e)
    \/ IsBodyErr(e)

(* C10: error categories.  A pipeline ends at its first failing call and   *)
(* with the category of that call: SendResponse for the head (and then the *)
(* head is the only call made), SendData for a failed grant, data frame or *)
(* final frame, ResponseBody for a body poll error; a pipeline that made   *)
(* no failing call does not end in an error.                               *)
C10_ErrorCategories ==
    \A s \in Streams :
        LET t == task[s]
            tr == t.trace
        IN  /\ t.res \in {"pending", "Ok"} \cup DispatchError
            /\ \A i \in 1..Len(tr) :
                  IsFailure(tr[i]) =>
                      /\ i = Len(tr)
                      /\ t.pc = "done"
                      /\ t.res = (CASE tr[i].op = "send_response" -> "SendResponse"
                                    [] tr[i].op = "poll_next" -> "ResponseBody"
                                    [] OTHER -> "SendData")
            /\ t.res = "SendResponse" => Len(tr) = 1
            /\ t.res \in DispatchError => IsFailure(Last(tr))

\* a failed capacity grant after the head and one data frame
C10_Witness ==
    /\ task[1].res = "SendData"
    /\ IsGrantErr(Last(task[1].trace))
    /\ Len(SentData(task[1].trace)) = 1


IsGrant(e) == e.op = "poll_capacity" /\ e.res = "Ok"

\* the index of the last chunk the body produced before event i
ChunkBefore(tr, i) ==
    CHOOSE j \in 1..(i - 1) :
        IsChunk(tr[j]) /\ \A k \in (j + 1)..(i - 1) : ~IsChunk(tr[k])

\* the bytes handed to send_data between events j and i
RECURSIVE Handed(_, _, _)
Handed(tr, j, i) ==
    IF j + 1 >= i THEN 0
    ELSE (IF tr[j + 1].op = "send_data" THEN tr[j + 1].bytes.len ELSE 0)
            + Handed(tr, j + 1, i)

(* C11: no coalescing.  Every capacity grant of k bytes is answered at     *)
(* once by one non-final data frame that holds the first min(k, r) bytes   *)
(* of the r bytes of the current chunk not yet handed to the transport,    *)
(* and no non-final data frame is sent without a grant right before it.    *)
C11_NoCoalescing ==
    \A s \in Streams :
        LET tr == task[s].trace
        IN  \A i \in 1..Len(tr) :
              /\ IsGrant(tr[i]) =>
                    LET j == ChunkBefore(tr, i)
                        done == Handed(tr, j, i)
                        r == tr[j].bytes.len - done
                    IN  /\ i < Len(tr)
                        /\ tr[i + 1].op = "send_data"
                        /\ ~tr[i + 1].eos
                        /\ tr[i + 1].bytes
                              = Bytes(tr[j].bytes.src, tr[j].bytes.off + done,
                                      Min(tr[i].cap, r))
              /\ (tr[i].op = "send_data" /\ ~tr[i].eos) => IsGrant(tr[i - 1])

\* grants of 1 and 1 for a chunk of 2 bytes gave two frames of 1 byte
C11_Witness ==
    LET tr == task[1].trace
    IN  /\ Len(tr) >= 8
        /\ IsChunk(tr[2]) /\ tr[2].bytes.len = 2
        /\ IsGrant(tr[4]) /\ tr[4].cap = 1
        /\ tr[5].op = "send_data" /\ tr[5].bytes = Bytes(1, 0, 1) /\ tr[5].ok
        /\ IsGrant(tr[7]) /\ tr[7].cap = 1
        /\ tr[8].op = "send_data" /\ tr[8].bytes = Bytes(1, 1, 1) /\ tr[8].ok


----------------------------------------------------------------------------
(* Properties of the pipelines of both dispatchers: specification Spec *)

IsTerminal(e) == e.op = "poll_next" /\ e.item \in {"end", "err"}

(* C12: the body contract.  After a poll of the body has returned the end  *)
(* or a failure, the pipeline makes no further poll of that body and is    *)
(* not suspended on one, in the HTTP/2 and in the HTTP/3 pipeline.         *)
C12_NoRepoll ==
    \A s \in Streams :
        LET t == task[s]
            tr == t.trace
        IN  /\ ~t.body.repolled
            /\ t.body.state # "live" => t.pc # "body"
            /\ \A i \in 1..Len(tr) :
                  IsTerminal(tr[i]) =>
                      \A j \in (i + 1)..Len(tr) : tr[j].op # "poll_next"

\* one pipeline ended on a failed body, another on a finished body
C12_Witness ==
    \E s, u \in Streams :
        /\ task[s].pc = "done" /\ task[s].body.state = "failed"
        /\ task[u].pc = "done" /\ task[u].body.state = "finished"


\* the head the pipeline of this connection prepares for a response
PreparedHead(config, resp) ==
    LET size == MessageBody_size(resp.body)
    IN  IF proto = "h2"
        THEN prepare_response(config, resp.head, size).res
        ELSE h3_prepare_response(config, resp.head, size).res

(* C13: when the service call of a stream has failed, the first call on    *)
(* the stream's send handle is send_response with the head prepared from   *)
(* the error response built from the service error, and that response's    *)
(* body is the body the pipeline goes on with.                             *)
C13_ServiceFailure ==
    \A s \in Streams :
        task[s].fut = "Err" =>
            LET tr == task[s].trace
            IN  /\ Len(tr) >= 1
                /\ tr[1].op = "send_response"
                /\ \E r \in ConnResults, c \in Configs :
                      /\ ~r.ok
                      /\ tr[1].res = PreparedHead(c, from_error(r.err))
                      /\ tr[1].res.status = r.err.status
                      /\ task[s].body.size = from_error(r.err).body.size

\* a failed service call whose error response went out in full
C13_Witness ==
    \E s \in Streams :
        /\ task[s].fut = "Err"
        /\ task[s].pc = "done"
        /\ task[s].res = "Ok"
        /\ task[s].trace[1].op = "send_response"
        /\ task[s].trace[1].res.status = INTERNAL_SERVER_ERROR


----------------------------------------------------------------------------
(* BodyStream polled by a caller *)

\* a caller polls the body once more, until it has been given None
body_stream_poll ==
    /\ call.state = "stream"
    /\ LET r == BodyStream_poll_next(call.body)
       IN  call' = [call EXCEPT
                      !.body = r.self,
                      !.size = BodyStream_size(r.self),
                      !.out = Append(@, [item |-> r.poll,
                                         polls |-> r.self.stream.polled
                                                   - call.body.stream.polled]),
                      !.state = IF r.poll.t = "None" THEN "ended" ELSE "stream"]
    /\ UNCHANGED <<proto, conn, accepts, accepted, svc_calls, task>>

\* the errors of the producers
StreamErrs == {"StreamErr", "Infallible"}

ItemKinds ==
    {[k |-> "Pending", n |-> 0]}
    \cup {[k |-> "Ok", n |-> n] : n \in 0..MaxBytes}
    \cup {[k |-> "Err", n |-> n] : n \in 1..Cardinality(StreamErrs)}

ErrOf(n) == IF n = 1 THEN "StreamErr" ELSE "Infallible"

\* the wrapped streams: chunks and Pending answers, an error only as the last item
ItemSeqs ==
    {[i \in 1..Len(ks) |->
        CASE ks[i].k = "Pending" -> ItemPending
          [] ks[i].k = "Ok" -> ItemOk(Bytes(i, 0, ks[i].n))
          [] OTHER -> ItemErr(ErrOf(ks[i].n))] :
     ks \in {s \in UNION {[1..n -> ItemKinds] : n \in 0..MaxItems} :
                \A i \in 1..(Len(s) - 1) : s[i].k # "Err"}}

InitStream ==
    /\ proto = "h2"
    /\ conn = "pending"
    /\ accepts = <<>>
    /\ accepted = 0
    /\ svc_calls = <<>>
    /\ task = [s \in Streams |-> IdleTask]
    /\ call \in {[state |-> "stream", body |-> BodyStream_new(Stream(items)),
                  size |-> BodyStream_size(BodyStream_new(Stream(items))),
                  out |-> <<>>] : items \in ItemSeqs}

NextStream == body_stream_poll

SpecStream == InitStream /\ [][NextStream]_vars

\* the items a sequence of poll answers hands to the caller
Items(out) ==
    LET ready == SelectSeq(out, LAMBDA o : o.item.t # "Pending")
    IN  [i \in 1..Len(ready) |-> ready[i].item]

\* the wrapped sequence without its Pending answers, ended by None
Wrapped(items) == SelectSeq(items, LAMBDA x : x.t # "Pending") \o <<ItemNone>>

IsEmptyChunk(x) == x.t = "Ok" /\ x.bytes.len = 0

(* C14: the items returned by successive BodyStream::poll_next calls are   *)
(* the wrapped sequence with every zero-length Ok chunk removed, in the    *)
(* same order, with the terminal error and the end; no zero-length chunk   *)
(* is ever returned.                                                       *)
C14_EmptyChunkSuppression ==
    call.state \in {"stream", "ended"} =>
        LET got == Items(call.out)
            want == SelectSeq(Wrapped(call.body.stream.items),
                              LAMBDA x : ~IsEmptyChunk(x))
        IN  /\ IsPrefix(got, want)
            /\ call.state = "ended" => got = want
            /\ \A i \in 1..Len(got) : ~IsEmptyChunk(got[i])

\* "1", "", "2" read to the end
C14_Witness ==
    /\ call.state = "ended"
    /\ Len(call.body.stream.items) = 3
    /\ call.body.stream.items[1].t = "Ok" /\ call.body.stream.items[1].bytes.len = 1
    /\ IsEmptyChunk(call.body.stream.items[2])
    /\ call.body.stream.items[3].t = "Ok" /\ call.body.stream.items[3].bytes.len = 1
    /\ Items(call.out) = <<call.body.stream.items[1], call.body.stream.items[3],
                           ItemNone>>

\* the last item the wrapped stream has been polled for
Polled(stream) == stream.items[stream.pos - 1]

(* C15: an Err item of the wrapped sequence is returned by the poll_next   *)
(* call that polled it, as the same error value, wherever it stands in the *)
(* sequence and however often the wrapped sequence was Pending before it;  *)
(* and poll_next returns no error the wrapped sequence did not produce.    *)
C15_ErrorPreserved ==
    call.state \in {"stream", "ended"} =>
        LET stream == call.body.stream
            out == call.out
        IN  /\ \A i \in 1..Len(stream.items) :
                  (stream.items[i].t = "Err" /\ stream.pos > i) =>
                      \E k \in 1..Len(out) : out[k].item = stream.items[i]
            /\ (/\ stream.pos > 1
                /\ stream.pos <= Len(stream.items) + 1
                /\ stream.polled = stream.pos - 1
                /\ Polled(stream).t = "Err") => Last(out).item = Polled(stream)
            /\ \A k \in 1..Len(out) :
                  out[k].item.t = "Err" =>
                      \E i \in 1..Len(stream.items) : stream.items[i] = out[k].item

\* an error behind an empty chunk and a Pending answer has just been returned
C15_Witness ==
    /\ call.state = "stream"
    /\ call.body.stream.items = <<ItemOk(Bytes(1, 0, 0)), ItemPending, ItemErr("StreamErr")>>
    /\ Len(call.out) = 2
    /\ call.out[1].item = ItemPending
    /\ call.out[2].item = ItemErr("StreamErr")


----------------------------------------------------------------------------
(* prepare_response on its own: one call with any head and any size hint *)

\* the longest input header list
MaxHeaders == 3

\* handle_response of the HTTP/2 dispatcher calls prepare_response
prepare_call ==
    /\ proto = "h2"
    /\ call.state = "args"
    /\ LET p == prepare_response(call.config, call.head, call.size)
       IN  call' = [state |-> "done", config |-> call.config, head |-> call.head,
                    size |-> call.size, res |-> p.res, size_out |-> p.size]
    /\ UNCHANGED <<proto, conn, accepts, accepted, svc_calls, task>>

\* handle_response of the HTTP/3 dispatcher calls prepare_response
h3_prepare_call ==
    /\ proto = "h3"
    /\ call.state = "args"
    /\ LET p == h3_prepare_response(call.config, call.head, call.size)
       IN  call' = [state |-> "done", config |-> call.config, head |-> call.head,
                    size |-> call.size, res |-> p.res, size_out |-> p.size]
    /\ UNCHANGED <<proto, conn, accepts, accepted, svc_calls, task>>

\* the headers a response head may carry
HeaderPairs ==
    {<<CONTENT_LENGTH, "5">>, <<CONTENT_LENGTH, "7">>,
     <<DATE, "Fri, 02 Jan 1970 00:00:00 GMT">>,
     <<"x-a", "a">>, <<"x-a", "b">>,
     <<CONNECTION, "close">>, <<TRANSFER_ENCODING, "chunked">>}

\* HeaderMap::iter yields the values of one name together
Grouped(hdrs) ==
    \A i, j, k \in 1..Len(hdrs) :
        (i < k /\ k < j /\ hdrs[i][1] = hdrs[j][1]) => hdrs[k][1] = hdrs[i][1]

HeaderLists ==
    {h \in UNION {[1..n -> HeaderPairs] : n \in 0..MaxHeaders} : Grouped(h)}

Statuses == {OK, NO_CONTENT, CONTINUE, PROCESSING, SWITCHING_PROTOCOLS}

\* the declared lengths and their decimal forms
Lens == {0, 7, 10, 105}

Decimal(n) ==
    CASE n = 0 -> "0" [] n = 7 -> "7" [] n = 10 -> "10" [] n = 105 -> "105"

Sizes ==
    {BodySize_None, BodySize_Empty, BodySize_Stream}
    \cup {BodySize_Sized(n) : n \in Lens}

InitPrep ==
    /\ proto \in {"h2", "h3"}
    /\ conn = "pending"
    /\ accepts = <<>>
    /\ accepted = 0
    /\ svc_calls = <<>>
    /\ task = [s \in Streams |-> IdleTask]
    /\ call \in {[state |-> "args", config |-> c,
                  head |-> [status |-> st, headers |-> h], size |-> sz] :
                 c \in Configs, st \in Statuses, h \in HeaderLists, sz \in Sizes}

NextPrep ==
    \/ prepare_call
    \/ h3_prepare_call

SpecPrep == InitPrep /\ [][NextPrep]_vars

\* the values of one name in a header map, in order
Values(headers, name) ==
    LET hs == SelectSeq(headers, LAMBDA h : h[1] = name)
    IN  [i \in 1..Len(hs) |-> hs[i][2]]

Names(headers) == {headers[i][1] : i \in 1..Len(headers)}

Prepared == call.state = "done"

(* C16: for a head with status 204, 100 or 102, whatever the size hint and *)
(* the input headers, the prepared head has no Content-Length header and   *)
(* the size hint is None after the call.                                   *)
C16_NoLengthOverride ==
    (Prepared /\ call.head.status \in {NO_CONTENT, CONTINUE, PROCESSING}) =>
        /\ CONTENT_LENGTH \notin Names(call.res.headers)
        /\ call.size_out = BodySize_None

(* C17: for a head with status 101, whatever the size hint and the input   *)
(* headers, the prepared head has no Content-Length header and the size    *)
(* hint is Stream after the call, which is not eof.                        *)
C17_UpgradeOverride ==
    (Prepared /\ call.head.status = SWITCHING_PROTOCOLS) =>
        /\ CONTENT_LENGTH \notin Names(call.res.headers)
        /\ call.size_out = BodySize_Stream
        /\ ~is_eof(call.size_out)

\* a 101 head declared Stream that carried its own Content-Length
C17_Witness ==
    /\ Prepared
    /\ proto = "h2"
    /\ call.head.status = SWITCHING_PROTOCOLS
    /\ call.size = BodySize_Stream
    /\ CONTENT_LENGTH \in Names(call.head.headers)
    /\ CONTENT_LENGTH \notin Names(call.res.headers)

(* C18: for a status other than 204, 100, 102 and 101, a size hint Empty   *)
(* gives exactly one Content-Length value, "0", and Sized(n) exactly one,  *)
(* the decimal form of n, whatever Content-Length the input carried; the   *)
(* size hint is unchanged.                                                 *)
C18_LengthHeader ==
    (/\ Prepared
     /\ call.head.status \notin {NO_CONTENT, CONTINUE, PROCESSING,
                                 SWITCHING_PROTOCOLS}) =>
        /\ call.size.t = "Empty" =>
              /\ Values(call.res.headers, CONTENT_LENGTH) = <<"0">>
              /\ call.size_out = call.size
        /\ call.size.t = "Sized" =>
              /\ Values(call.res.headers, CONTENT_LENGTH) = <<Decimal(call.size.n)>>
              /\ call.size_out = call.size

\* Sized(105) over a head that carried two Content-Length values
C18_Witness ==
    /\ Prepared
    /\ call.head.status = OK
    /\ call.size = BodySize_Sized(105)
    /\ Len(Values(call.head.headers, CONTENT_LENGTH)) = 2
    /\ Values(call.res.headers, CONTENT_LENGTH) = <<"105">>

(* C19: whenever the size hint after the status override is None or        *)
(* Stream, the prepared head has no Content-Length header, whatever the    *)
(* input head carried.                                                     *)
C19_ExplicitLengthDropped ==
    (Prepared /\ call.size_out.t \in {"None", "Stream"}) =>
        CONTENT_LENGTH \notin Names(call.res.headers)

(* C20: the prepared head has no Connection and no Transfer-Encoding       *)
(* header; every other input name except Content-Length has in the         *)
(* prepared head the values it had in the input, as many and in the same   *)
(* order.                                                                  *)
C20_HeaderFiltering ==
    Prepared =>
        /\ CONNECTION \notin Names(call.res.headers)
        /\ TRANSFER_ENCODING \notin Names(call.res.headers)
        /\ \A name \in Names(call.head.headers) \
                       {CONNECTION, TRANSFER_ENCODING, CONTENT_LENGTH} :
              Values(call.res.headers, name) = Values(call.head.headers, name)

\* a Connection header dropped and two values of one name kept in order
C20_Witness ==
    /\ Prepared
    /\ call.head.headers = <<<<CONNECTION, "close">>, <<"x-a", "b">>, <<"x-a", "a">>>>
    /\ Values(call.res.headers, "x-a") = <<"b", "a">>
    /\ CONNECTION \notin Names(call.res.headers)


(* C21: the prepared head always has a Date header; Date values of the     *)
(* input head are the output's Date values and nothing is synthesized; an  *)
(* input head without Date gets exactly one, the value of the config's     *)
(* clock.                                                                  *)
C21_DateHeader ==
    Prepared =>
        /\ DATE \in Names(call.res.headers)
        /\ Values(call.res.headers, DATE) =
              IF DATE \in Names(call.head.headers)
              THEN Values(call.head.headers, DATE)
              ELSE <<call.config.date>>

\* a head that brought two Date values keeps both
C21_Witness ==
    /\ Prepared
    /\ Len(Values(call.head.headers, DATE)) = 2
    /\ Values(call.res.headers, DATE) = Values(call.head.headers, DATE)
    /\ call.config.date \notin {call.res.headers[i][2] : i \in 1..Len(call.res.headers)}

----------------------------------------------------------------------------
(* prepare_response statement by statement, called twice by one caller on   *)
(* the same head: the frame holds what the call can reach (the config with  *)
(* the date it shows, the head behind its reference, the size hint behind   *)
(* its reference) and its locals (res, skip_len, has_date, the place i of   *)
(* the copy loop); now is the date the config showed at "set date header".  *)

\* the values the config's date may show
Clocks == Dates \cup {"Sat, 03 Jan 1970 00:00:00 GMT"}

\* http::Response::new(())
Response_new == [status |-> OK, version |-> "HTTP/1.1", headers |-> <<>>]

\* the frame of a call of prepare_response(config, head, &mut size)
Frame(config, head, size) ==
    [pc |-> "enter", config |-> config, head |-> head, size |-> size,
     res |-> Response_new, skip_len |-> FALSE, has_date |-> FALSE, i |-> 1,
     now |-> ""]

\* has_date, skip_len, the new response with the head's status and HTTP_2
prepare_response_enter(f) ==
    [f EXCEPT !.has_date = FALSE,
              !.skip_len = (f.size # BodySize_Stream),
              !.res = [Response_new EXCEPT !.status = f.head.status,
                                           !.version = HTTP_2],
              !.pc = "status"]

\* match head.status
prepare_response_status(f) ==
    CASE f.head.status = NO_CONTENT \/ f.head.status = CONTINUE
            \/ f.head.status = PROCESSING ->
           [f EXCEPT !.size = BodySize_None, !.pc = "length"]
      [] f.head.status = SWITCHING_PROTOCOLS ->
           [f EXCEPT !.skip_len = TRUE, !.size = BodySize_Stream,
                     !.pc = "length"]
      [] OTHER -> [f EXCEPT !.pc = "length"]

\* match size
prepare_response_length(f) ==
    CASE f.size.t = "Empty" ->
           [f EXCEPT !.res.headers = insert(@, CONTENT_LENGTH, "0"),
                     !.pc = "copy", !.i = 1]
      [] f.size.t = "Sized" ->
           [f EXCEPT !.res.headers =
                         insert(@, CONTENT_LENGTH, itoa_format(f.size.n)),
                     !.pc = "copy", !.i = 1]
      [] OTHER -> [f EXCEPT !.pc = "copy", !.i = 1]

\* the copy loop moving each header out of the head
prepare_response_copy_draining(f) ==
    IF f.head.headers = <<>> THEN [f EXCEPT !.pc = "date"]
    ELSE LET key == f.head.headers[1][1]
             value == f.head.headers[1][2]
             rest == [f EXCEPT !.head.headers = Tail(@)]
         IN  CASE key = CONNECTION \/ key = TRANSFER_ENCODING -> rest
               [] key = CONTENT_LENGTH /\ f.skip_len -> rest
               [] key = DATE ->
                    [rest EXCEPT !.has_date = TRUE,
                                 !.res.headers = append(@, key, value)]
               [] OTHER ->
                    [rest EXCEPT !.res.headers = append(@, key, value)]

\* one round of "for (key, value) in head.headers.iter()", or its end
prepare_response_copy(f) ==
    IF f.i > Len(f.head.headers) THEN [f EXCEPT !.pc = "date"]
    ELSE LET key == f.head.headers[f.i][1]
             value == f.head.headers[f.i][2]
             next == [f EXCEPT !.i = @ + 1]
         IN  CASE key = CONNECTION \/ key = TRANSFER_ENCODING -> next
               [] key = CONTENT_LENGTH /\ f.skip_len -> next
               [] key = DATE ->
                    [next EXCEPT !.has_date = TRUE,
                                 !.res.headers = append(@, key, value)]
               [] OTHER ->
                    [next EXCEPT !.res.headers = append(@, key, value)]

\* set date header, from the date the config shows now
prepare_response_date(f) ==
    IF ~f.has_date
    THEN [f EXCEPT !.res.headers = insert(@, DATE, f.config.date),
                   !.now = f.config.date, !.pc = "return"]
    ELSE [f EXCEPT !.now = f.config.date, !.pc = "return"]

\* the next statement of the call
prepare_step ==
    /\ call.state = "run"
    /\ call.frame.pc # "return"
    /\ call' = [call EXCEPT !.frame =
                  CASE call.frame.pc = "enter" -> prepare_response_enter(@)
                    [] call.frame.pc = "status" -> prepare_response_status(@)
                    [] call.frame.pc = "length" -> prepare_response_length(@)
                    [] call.frame.pc = "copy" -> prepare_response_copy(@)
                    [] OTHER -> prepare_response_date(@)]
    /\ UNCHANGED <<proto, conn, accepts, accepted, svc_calls, task>>

\* the call returns res, the size hint holds its new value; after the first
\* call the caller puts the input size hint back and calls again with the
\* same config and the same head
prepare_return ==
    /\ call.state = "run"
    /\ call.frame.pc = "return"
    /\ LET f == call.frame
           out == Append(call.out, [res |-> f.res, size |-> f.size, now |-> f.now])
       IN  call' = IF Len(call.out) = 0
                   THEN [call EXCEPT !.out = out,
                                     !.frame = Frame(f.config, f.head, call.size0)]
                   ELSE [call EXCEPT !.out = out, !.state = "twice"]
    /\ UNCHANGED <<proto, conn, accepts, accepted, svc_calls, task>>

\* the date service puts another date into the config
date_tick(clock) ==
    /\ call.state = "run"
    /\ call.frame.config.date # clock
    /\ call' = [call EXCEPT !.frame.config.date = clock]
    /\ UNCHANGED <<proto, conn, accepts, accepted, svc_calls, task>>

\* the heads and size hints the two calls are made on
TwicePairs ==
    {<<CONTENT_LENGTH, "5">>, <<DATE, "Fri, 02 Jan 1970 00:00:00 GMT">>,
     <<"x-a", "a">>, <<CONNECTION, "close">>}

TwiceHeads ==
    {[status |-> st, headers |-> h] :
        st \in Statuses,
        h \in {l \in HeaderLists : \A i \in 1..Len(l) : l[i] \in TwicePairs}}

InitTwice ==
    /\ proto = "h2"
    /\ conn = "pending"
    /\ accepts = <<>>
    /\ accepted = 0
    /\ svc_calls = <<>>
    /\ task = [s \in Streams |-> IdleTask]
    /\ call \in {[state |-> "run", head0 |-> head, size0 |-> size,
                  frame |-> Frame(c, head, size), out |-> <<>>] :
                 c \in Configs, head \in TwiceHeads, size \in Sizes}

NextTwice ==
    \/ prepare_step
    \/ prepare_return
    \/ \E clock \in Clocks : date_tick(clock)

SpecTwice == InitTwice /\ [][NextTwice]_vars

\* a step of the preparer or its caller, not of the date service
PrepareStep ==
    \/ call'.frame.pc # call.frame.pc
    \/ call'.frame.i # call.frame.i
    \/ call'.out # call.out

(* C22: two calls of the preparer on the same head and the same input size *)
(* hint return the same status and version, the same values of every       *)
(* header but a synthesized Date, and leave the size hint with the same    *)
(* value; when the config showed the same date to both, the two results    *)
(* are identical.  Each result is the function of head, size hint and date *)
(* that prepare_response computes.  No statement of the call changes the   *)
(* head or the config: the call writes only its response and the size      *)
(* hint.                                                                   *)
C22_Deterministic ==
    /\ [](call.state \in {"run", "twice"} =>
            /\ call.frame.head = call.head0
            /\ \A k \in 1..Len(call.out) :
                  LET p == prepare_response([date |-> call.out[k].now],
                                            call.head0, call.size0)
                  IN  /\ call.out[k].res = p.res
                      /\ call.out[k].size = p.size
            /\ call.state = "twice" =>
                  LET a == call.out[1]
                      b == call.out[2]
                  IN  /\ a.res.status = b.res.status
                      /\ a.res.version = b.res.version
                      /\ a.size = b.size
                      /\ \A name \in (Names(a.res.headers)
                                        \cup Names(b.res.headers)) \ {DATE} :
                            Values(a.res.headers, name) = Values(b.res.headers, name)
                      /\ DATE \in Names(call.head0.headers) =>
                            a.res.headers = b.res.headers
                      /\ a.now = b.now => a = b)
    /\ [][(call.state = "run" /\ PrepareStep) =>
            /\ call'.frame.head = call.frame.head
            /\ call'.frame.config = call.frame.config
            /\ call'.head0 = call.head0
            /\ call'.size0 = call.size0]_vars

\* the second call of a 204 head declared Stream that carries a
\* Content-Length and no Date has returned, the config showing the same date
C22_Witness ==
    /\ call.state = "twice"
    /\ call.head0.status = NO_CONTENT
    /\ call.size0 = BodySize_Stream
    /\ CONTENT_LENGTH \in Names(call.head0.headers)
    /\ DATE \notin Names(call.head0.headers)
    /\ call.out[1].now = call.out[2].now
    /\ call.out[1].size = BodySize_None
    /\ DATE \in Names(call.out[2].res.headers)
    /\ call.out[2] = call.out[1]


(* C24: BodyStream::size() is Stream in every state of the adapter: before *)
(* the first poll, between polls, after the end and after an error,        *)
(* whatever the wrapped sequence holds.                                    *)
C24_SizeIsStream ==
    call.state \in {"stream", "ended"} =>
        /\ BodyStream_size(call.body) = BodySize_Stream
        /\ call.size = BodySize_Stream

\* the size asked after an error and the end have been returned
C24_Witness ==
    /\ call.state = "ended"
    /\ \E k \in 1..Len(call.out) : call.out[k].item.t = "Err"
    /\ Last(call.out).item = ItemNone
    /\ call.size = BodySize_Stream


----------------------------------------------------------------------------
(* A BodyStream body sent by the HTTP/2 pipeline *)

\* the wrapped streams of the responses: chunks, some empty, and Pending answers
E2EItemSeqs ==
    {items \in ItemSeqs :
        /\ \A i \in 1..Len(items) : items[i].t # "Err"
        /\ Sum([i \in 1..Len(items) |-> items[i].bytes.len]) <= MaxBytes}

E2EResults == {Response(OK, BodyStream_new(Stream(items))) : items \in E2EItemSeqs}

E2EGrants == {GrantNone, GrantOk(1), GrantOk(MaxBytes)}

NextE2E ==
    \/ poll_accept_stream(1)
    \/ \E r \in E2EResults, c \in Configs, sent \in BOOLEAN : fut_ready(1, r, c, sent)
    \/ \E sent \in BOOLEAN : body_ready(1, sent)
    \/ \E grant \in E2EGrants, sent \in BOOLEAN : capacity_ready(1, grant, sent)

SpecE2E == InitPipe /\ [][NextE2E]_vars

\* the non-empty chunks of a wrapped stream, in order
SourceChunks(items) ==
    BytesOf(SelectSeq(items, LAMBDA x : x.t = "Ok" /\ x.bytes.len > 0))

\* every grant so far was a capacity that covers the chunk, every send succeeded
Covered(tr) ==
    \A i \in 1..Len(tr) :
        /\ tr[i].op = "poll_capacity" =>
              IsGrant(tr[i]) /\ tr[i].cap >= tr[ChunkBefore(tr, i)].bytes.len
        /\ tr[i].op \in {"send_response", "send_data"} => tr[i].ok

(* C23: end to end.  For a BodyStream over an error-free chunk sequence    *)
(* with zero-length chunks, grants that cover the current chunk and sends  *)
(* that succeed, the HTTP/2 pipeline sends the head first, then one        *)
(* non-final data frame per non-empty source chunk, in source order and    *)
(* holding that chunk's bytes, none for an empty chunk, and ends with one  *)
(* empty end-of-stream frame.                                              *)
C23_EndToEnd ==
    LET t == task[1]
        tr == t.trace
    IN  (t.pc \notin {"idle", "service"} /\ Covered(tr)) =>
            LET want == SourceChunks(t.body.stream.items)
                frames == BytesOf(SelectSeq(tr, IsData))
            IN  /\ tr[1].op = "send_response"
                /\ \A i \in 2..Len(tr) : tr[i].op # "send_response"
                /\ IsPrefix(frames, want)
                /\ \A i \in 1..Len(tr) :
                      IsEos(tr[i]) =>
                          i = Len(tr) /\ tr[i].bytes.len = 0 /\ frames = want
                /\ t.pc = "done" =>
                      t.res = "Ok" /\ IsEos(Last(tr)) /\ frames = want

\* "1", "", "2" sent as a head, the frames "1" and "2" and the final frame
C23_Witness ==
    LET t == task[1]
    IN  /\ t.pc = "done"
        /\ t.res = "Ok"
        /\ Covered(t.trace)
        /\ t.body.stream.items =
              <<ItemOk(Bytes(1, 0, 1)), ItemOk(Bytes(2, 0, 0)), ItemOk(Bytes(3, 0, 1))>>
        /\ BytesOf(SelectSeq(t.trace, LAMBDA e : e.op = "send_data")) =
              <<Bytes(1, 0, 1), Bytes(3, 0, 1), Bytes_new>>


----------------------------------------------------------------------------
(* Data<T>: src/data.rs *)

\* the most registrations of application data
MaxData == 2

\* the data types of the applications
DataTypes == {"u32", "usize"}

\* the type of Data<T>
Data(T) == "Data<" \o T \o ">"

\* the types an application registers values of: Data<T> and T itself
EntryTypes == {Data(T) : T \in DataTypes} \cup DataTypes

DataValues == {10, 13}

NoEntry == [some |-> FALSE, val |-> 0]

\* Extensions::insert: the map holds one value per type, the latest
Extensions_insert(extensions, type, val) ==
    Append(SelectSeq(extensions, LAMBDA e : e.type # type),
           [type |-> type, val |-> val])

\* req.app_data::<U>(): the entry of exactly the type U, if any
app_data(extensions, U) ==
    LET found == SelectSeq(extensions, LAMBDA e : e.type = U)
    IN  IF found = <<>> THEN NoEntry ELSE [some |-> TRUE, val |-> found[1].val]

\* DataFactory::create of Data<T>: inserts Data(self.0.clone())
DataFactory_create(extensions, T, val) ==
    Extensions_insert(extensions, Data(T), val)

\* from_request handing out whatever Data entry the application holds
from_request_any(extensions, T) ==
    LET found == SelectSeq(extensions,
                           LAMBDA e : e.type \in {Data(U) : U \in DataTypes})
    IN  IF found # <<>>
        THEN [ok |-> TRUE, val |-> found[1].val, err |-> 0]
        ELSE [ok |-> FALSE, val |-> 0, err |-> INTERNAL_SERVER_ERROR]

\* <Data<T> as FromRequest>::from_request
from_request(extensions, T) ==
    LET st == app_data(extensions, Data(T))
    IN  IF st.some
        THEN [ok |-> TRUE, val |-> st.val, err |-> 0]
        ELSE [ok |-> FALSE, val |-> 0, err |-> INTERNAL_SERVER_ERROR]

\* App::data(val) with val of type T
App_data(T, val) ==
    /\ call.state = "app"
    /\ call.n < MaxData
    /\ call' = [call EXCEPT
                  !.extensions = DataFactory_create(@, T, val),
                  !.regs = Append(@, [type |-> Data(T), val |-> val]),
                  !.n = @ + 1]
    /\ UNCHANGED <<proto, conn, accepts, accepted, svc_calls, task>>

\* App::app_data(val) with val of the type given, Data<T> or not
App_app_data(type, val) ==
    /\ call.state = "app"
    /\ call.n < MaxData
    /\ call' = [call EXCEPT
                  !.extensions = Extensions_insert(@, type, val),
                  !.regs = Append(@, [type |-> type, val |-> val]),
                  !.n = @ + 1]
    /\ UNCHANGED <<proto, conn, accepts, accepted, svc_calls, task>>

\* a request to a handler that takes Data<T>: the handler runs with the
\* extracted value and answers Ok, or the extractor's error is the response
srv_call(T) ==
    /\ call.state = "app"
    /\ LET r == from_request(call.extensions, T)
       IN  call' = [state |-> "served", extensions |-> call.extensions,
                    regs |-> call.regs, n |-> call.n, T |-> T, data |-> r,
                    handler |-> r.ok,
                    status |-> IF r.ok THEN OK ELSE r.err]
    /\ UNCHANGED <<proto, conn, accepts, accepted, svc_calls, task>>

InitData ==
    /\ proto = "h2"
    /\ conn = "pending"
    /\ accepts = <<>>
    /\ accepted = 0
    /\ svc_calls = <<>>
    /\ task = [s \in Streams |-> IdleTask]
    /\ call = [state |-> "app", extensions |-> <<>>, regs |-> <<>>, n |-> 0]

NextData ==
    \/ \E T \in DataTypes, val \in DataValues : App_data(T, val)
    \/ \E type \in EntryTypes, val \in DataValues : App_app_data(type, val)
    \/ \E T \in DataTypes : srv_call(T)

SpecData == InitData /\ [][NextData]_vars

\* the registrations of a type, in order
Registered(regs, type) == SelectSeq(regs, LAMBDA e : e.type = type)

(* C25: the Data<T> extractor succeeds exactly when a value of type        *)
(* Data<T>, for that T, was registered, and then hands out the registered  *)
(* value and the handler runs; otherwise, also when only another type is   *)
(* registered, it fails with Internal Server Error, the handler is not run *)
(* and the response is that error.                                         *)
C25_DataExtractor ==
    call.state = "served" =>
        LET regs == Registered(call.regs, Data(call.T))
        IN  /\ call.data.ok <=> regs # <<>>
            /\ call.data.ok =>
                  /\ call.data.val = Last(regs).val
                  /\ call.handler
                  /\ call.status = OK
            /\ ~call.data.ok =>
                  /\ call.data.err = INTERNAL_SERVER_ERROR
                  /\ ~call.handler
                  /\ call.status = INTERNAL_SERVER_ERROR

\* Data<u32> and a plain usize registered, Data<usize> asked for
C25_Witness ==
    /\ call.state = "served"
    /\ call.T = "usize"
    /\ Registered(call.regs, Data("u32")) # <<>>
    /\ Registered(call.regs, "usize") # <<>>
    /\ ~call.data.ok
    /\ ~call.handler
    /\ call.status = INTERNAL_SERVER_ERROR


----------------------------------------------------------------------------
(* Further properties of the HTTP/2 pipeline: specification SpecPipe *)

IsEmptyPoll(e) == IsChunk(e) /\ e.bytes.len = 0

(* C26: a zero-length chunk returned by the body is not skipped and does   *)
(* not end the stream: the pipeline reserves for it, awaits the grant, and *)
(* on a grant sends exactly one empty data frame that is not marked end of *)
(* stream; after that frame it polls the body for the next chunk.          *)
C26_EmptyChunkFrame ==
    LET t == task[1]
        tr == t.trace
        n == Len(tr)
    IN  \A i \in 1..n :
            IsEmptyPoll(tr[i]) =>
                /\ i = n => t.pc = "capacity"
                /\ i + 1 <= n =>
                      tr[i + 1].op = "reserve_capacity" /\ tr[i + 1].n = 0
                /\ i + 1 = n => t.pc = "capacity"
                /\ i + 2 <= n => tr[i + 2].op = "poll_capacity"
                /\ (i + 2 <= n /\ IsGrant(tr[i + 2])) =>
                      /\ i + 3 <= n
                      /\ IsData(tr[i + 3])
                      /\ tr[i + 3].bytes.len = 0
                /\ (i + 3 = n /\ tr[i + 3].ok) => t.pc = "body"
                /\ i + 4 <= n => tr[i + 3].ok /\ tr[i + 4].op = "poll_next"

\* an empty chunk sent as an empty frame, then the next chunk polled
C26_Witness ==
    LET tr == task[1].trace
    IN  /\ Len(tr) >= 6
        /\ IsEmptyPoll(tr[2])
        /\ IsGrant(tr[4])
        /\ IsData(tr[5]) /\ tr[5].bytes.len = 0 /\ tr[5].ok
        /\ IsChunk(tr[6]) /\ tr[6].bytes.len > 0


----------------------------------------------------------------------------
(* The HTTP/2 pipeline with chunks around CHUNK_SIZE *)

CeilChunks ==
    {<<CHUNK_SIZE - 1>>, <<CHUNK_SIZE>>, <<CHUNK_SIZE + 1>>,
     <<2 * CHUNK_SIZE + 1>>, <<CHUNK_SIZE + 1, 1>>}

CeilResults ==
    {Response(OK, MessageBody(BodySize_Stream, cs, "end")) : cs \in CeilChunks}
    \cup {Response(OK, MessageBody(BodySize_Sized(Sum(cs)), cs, "end")) :
            cs \in CeilChunks}

CeilGrants ==
    {GrantNone, GrantErr, GrantOk(CHUNK_SIZE), GrantOk(CHUNK_SIZE \div 2)}

NextCeil ==
    \/ poll_accept_stream(1)
    \/ \E r \in CeilResults, c \in Configs, sent \in BOOLEAN : fut_ready(1, r, c, sent)
    \/ \E sent \in BOOLEAN : body_ready(1, sent)
    \/ \E grant \in CeilGrants, sent \in BOOLEAN : capacity_ready(1, grant, sent)

SpecCeil == InitPipe /\ [][NextCeil]_vars

\* the bytes of the current chunk not yet handed to send_data before event i
Remainder(tr, i) ==
    LET j == ChunkBefore(tr, i)
    IN  tr[j].bytes.len - Handed(tr, j, i)

(* C27: every capacity await comes right after a reservation of            *)
(* min(r, 16384) bytes, r being the bytes of the current chunk still       *)
(* unsent (the whole chunk on the first round); no reservation exceeds     *)
(* 16384 bytes.                                                            *)
C27_ReserveCeiling ==
    LET t == task[1]
        tr == t.trace
    IN  /\ \A i \in 1..Len(tr) :
              /\ tr[i].op = "poll_capacity" =>
                    /\ i > 1
                    /\ tr[i - 1].op = "reserve_capacity"
                    /\ tr[i - 1].n = Min(Remainder(tr, i - 1), CHUNK_SIZE)
              /\ tr[i].op = "reserve_capacity" =>
                    /\ tr[i].n <= 16384
                    /\ IsChunk(tr[i - 1]) => tr[i].n = Min(tr[i - 1].bytes.len, 16384)
        /\ t.pc = "capacity" =>
              /\ Last(tr).op = "reserve_capacity"
              /\ Last(tr).n = Min(t.chunk.len, CHUNK_SIZE)
              /\ t.chunk.len = Remainder(tr, Len(tr))

\* a chunk of 2 * 16384 + 1 bytes: 16384 reserved twice, then 1
C27_Witness ==
    LET t == task[1]
        tr == t.trace
    IN  /\ t.pc = "capacity"
        /\ Len(tr) = 9
        /\ IsChunk(tr[2]) /\ tr[2].bytes.len = 2 * CHUNK_SIZE + 1
        /\ tr[3].op = "reserve_capacity" /\ tr[3].n = 16384
        /\ tr[6].op = "reserve_capacity" /\ tr[6].n = 16384
        /\ tr[9].op = "reserve_capacity" /\ tr[9].n = 1


----------------------------------------------------------------------------
(* Ownership and order on the connection: specification Spec *)

\* a step of the dispatch loop: accept has answered
AcceptStep == accepts' # accepts

(* C28: each accepted stream has exactly one pipeline and only that        *)
(* pipeline uses the stream's handles.  A step of the dispatch loop makes  *)
(* no call on any stream's handles and only spawns the pipeline of the     *)
(* stream it accepted; any other step is the step of one spawned pipeline, *)
(* changes that pipeline only and accepts nothing; a pipeline is spawned   *)
(* once, for an accepted stream.                                           *)
C28_Ownership ==
    /\ [](\A s \in Streams : task[s].pc # "idle" <=> s <= accepted)
    /\ [](\A s \in Streams : task[s].pc = "idle" => task[s].trace = <<>>)
    /\ [][/\ AcceptStep =>
                \A s \in Streams :
                    /\ task'[s].trace = task[s].trace
                    /\ task'[s] # task[s] =>
                          /\ s = accepted'
                          /\ task[s].pc = "idle"
                          /\ task'[s].pc = "service"
          /\ ~AcceptStep =>
                /\ accepted' = accepted
                /\ conn' = conn
                /\ \A s \in Streams :
                      task'[s] # task[s] =>
                          /\ task[s].pc # "idle"
                          /\ \A u \in Streams \ {s} : task'[u] = task[u]
          /\ \A s \in Streams : task[s].pc # "idle" => task'[s].pc # "idle"
       ]_vars

\* two streams, each with a head and a data frame sent by its own pipeline
C28_Witness ==
    /\ accepted >= 2
    /\ \A s \in {1, 2} :
          /\ task[s].trace # <<>>
          /\ task[s].trace[1].op = "send_response"
          /\ \E i \in 1..Len(task[s].trace) : task[s].trace[i].op = "send_data"

\* the streams accept has handed out, in order
AcceptedStreams == [i \in 1..accepted |-> i]

(* C30: the service is called for an accepted stream in the step of the    *)
(* dispatch loop that accepted it, so before the next accept and before    *)
(* the stream's pipeline runs: the service calls are the accepted streams  *)
(* in acceptance order.  The result of a call is awaited in the stream's   *)
(* pipeline, in a step that is not a step of the loop.                     *)
C30_ServiceCallOrder ==
    /\ [](svc_calls = AcceptedStreams)
    /\ [](Len(SelectSeq(accepts, LAMBDA a : a = "Stream")) = Len(svc_calls))
    /\ [](\A s \in Streams :
            task[s].pc \in {"idle", "service"} =>
                task[s].fut = "pending" /\ task[s].trace = <<>>)
    /\ [][/\ accepted' # accepted =>
                /\ svc_calls' = Append(svc_calls, accepted')
                /\ task'[accepted'].fut = "pending"
          /\ \A s \in Streams :
                task'[s].fut # task[s].fut =>
                    /\ \E i \in 1..Len(svc_calls) : svc_calls[i] = s
                    /\ ~AcceptStep
       ]_vars

\* the services were called for 1 then 2; the response of 2 has gone out
\* while the call for 1 has not returned
C30_Witness ==
    /\ svc_calls = <<1, 2>>
    /\ task[1].pc = "service" /\ task[1].fut = "pending"
    /\ task[2].pc = "done" /\ task[2].fut # "pending" /\ task[2].res = "Ok"


----------------------------------------------------------------------------
(* Termination of the HTTP/2 pipeline.  Every body poll and every capacity *)
(* await is answered; poll_capacity answers Some(Ok(0)) at most            *)
(* MaxZeroGrants times in a pipeline.                                      *)

LiveBodies ==
    {MessageBody(BodySize_Stream, <<2, 1>>, "end"),
     MessageBody(BodySize_Stream, <<0, 2>>, "err"),
     MessageBody(BodySize_Sized(3), <<3>>, "end"),
     MessageBody(BodySize_Stream, <<>>, "end")}

LiveResults == {Response(OK, b) : b \in LiveBodies}

LiveGrants == {GrantNone, GrantErr, GrantOk(0), GrantOk(1), GrantOk(2)}

BodyAnswers == \E sent \in BOOLEAN : body_ready(1, sent)

CapacityAnswers ==
    \E grant \in LiveGrants, sent \in BOOLEAN : capacity_ready(1, grant, sent)

NextLive ==
    \/ poll_accept_stream(1)
    \/ \E r \in LiveResults, c \in Configs, sent \in BOOLEAN : fut_ready(1, r, c, sent)
    \/ BodyAnswers
    \/ CapacityAnswers

SpecLive ==
    /\ InitPipe
    /\ [][NextLive]_vars
    /\ WF_vars(BodyAnswers)
    /\ WF_vars(CapacityAnswers)

\* the step is the pipeline's resumption from a capacity await with a grant
GrantStep ==
    /\ task[1].pc = "capacity"
    /\ Len(task'[1].trace) > Len(task[1].trace)
    /\ IsGrant(task'[1].trace[Len(task[1].trace) + 1])

(* C29: the pipeline of a body with finitely many chunks, whose capacity   *)
(* awaits are answered by closed, an error or, after at most               *)
(* MaxZeroGrants grants of 0 bytes, a grant of at least 1 byte, ends.  A   *)
(* grant of k >= 1 bytes on a non-empty remainder makes the remainder      *)
(* smaller by min(k, remainder); a grant of 0 bytes sends an empty frame   *)
(* and leaves the remainder as it is.                                      *)
C29_Termination ==
    /\ (task[1].pc \in {"body", "capacity"}) ~> (task[1].pc = "done")
    /\ [][GrantStep =>
            LET n == Len(task[1].trace)
                k == task'[1].trace[n + 1].cap
                r == task[1].chunk.len
                frame == task'[1].trace[n + 2]
            IN  /\ IsData(frame)
                /\ frame.bytes.len = Min(k, r)
                /\ task'[1].chunk.len = r - Min(k, r)
                /\ (k >= 1 /\ r > 0) => task'[1].chunk.len < r
                /\ k = 0 => frame.bytes.len = 0 /\ task'[1].chunk.len = r
       ]_vars

\* a pipeline that ended after a grant of 0 bytes and grants that emptied
\* its chunks
C29_Witness ==
    LET t == task[1]
    IN  /\ t.pc = "done"
        /\ t.res = "Ok"
        /\ IsEos(Last(t.trace))
        /\ ZeroGrants(t.trace) >= 1
        /\ \E i \in 1..Len(t.trace) : IsGrant(t.trace[i]) /\ t.trace[i].cap = 1


----------------------------------------------------------------------------
(* The two preparers compared: specification SpecPrep *)

(* C31: on the same head, input size hint and clock value the HTTP/3       *)
(* preparer returns the status, the headers and the final size hint the    *)
(* HTTP/2 preparer returns; the prepared heads differ only in the version, *)
(* HTTP/3 instead of HTTP/2.                                               *)
C31_PreparersAgree ==
    Prepared =>
        LET a == prepare_response(call.config, call.head, call.size)
            b == h3_prepare_response(call.config, call.head, call.size)
        IN  /\ a.res.status = b.res.status
            /\ a.res.headers = b.res.headers
            /\ a.size = b.size
            /\ a.res.version = HTTP_2
            /\ b.res.version = HTTP_3
            /\ call.res = IF proto = "h2" THEN a.res ELSE b.res
            /\ call.res.status = a.res.status
            /\ call.res.headers = a.res.headers
            /\ call.size_out = a.size

\* the HTTP/3 preparer on a 204 head declared Stream with a Content-Length:
\* it keeps the header as the HTTP/2 preparer does
C31_Witness ==
    /\ Prepared
    /\ proto = "h3"
    /\ call.head.status = NO_CONTENT
    /\ call.size = BodySize_Stream
    /\ CONTENT_LENGTH \in Names(call.head.headers)
    /\ call.res.version = HTTP_3
    /\ call.res.headers =
          prepare_response(call.config, call.head, call.size).res.headers
    /\ CONTENT_LENGTH \in Names(call.res.headers)


----------------------------------------------------------------------------
(* The task of one HTTP/3 stream, with every body within the bounds *)

InitH3 == Init /\ proto = "h3"

NextH3 ==
    \/ h3_accept_stream(1)
    \/ \E r \in Results, c \in Configs : h3_fut_ready(1, r, c)
    \/ \E sent \in BOOLEAN : h3_head_ready(1, sent)
    \/ h3_body_ready(1)
    \/ \E sent \in BOOLEAN : h3_data_ready(1, sent)
    \/ \E finished \in BOOLEAN : h3_finish_ready(1, finished)

SpecH3 == InitH3 /\ [][NextH3]_vars

\* the indexes of the calls of finish in a trace
Finishes(tr) == {i \in 1..Len(tr) : tr[i].op = "finish"}

(* C32: the HTTP/3 task sends the prepared head first and once, then each  *)
(* chunk the body produces as one data frame, right after the poll that    *)
(* produced it; it stops at the first failed head send, failed data send   *)
(* or body error; then it calls finish exactly once, after a complete      *)
(* response and after an error alike, and nothing else on the stream; a    *)
(* failure of finish is logged and changes neither the task's result nor   *)
(* the connection.                                                         *)
C32_H3Task ==
    /\ [](LET t == task[1]
              tr == t.trace
              n == Len(tr)
          IN  /\ n >= 1 => tr[1].op = "send_response"
              /\ \A i \in 2..n : tr[i].op # "send_response"
              /\ \A i \in 1..n :
                    /\ tr[i].op = "send_data" =>
                          IsChunk(tr[i - 1]) /\ tr[i].bytes = tr[i - 1].bytes
                    /\ (IsChunk(tr[i]) /\ i < n) => tr[i + 1].op = "send_data"
                    /\ (IsChunk(tr[i]) /\ i = n) => FALSE
                    /\ (IsTerminal(tr[i]) /\ i < n) => tr[i + 1].op = "finish"
                    /\ tr[i].op = "finish" =>
                          /\ i > 1
                          /\ tr[i - 1].op \in {"send_response", "send_data", "poll_next"}
                          /\ t.res = "Ok" <=> IsBodyEnd(tr[i - 1])
                          /\ i < n => (i + 1 = n /\ tr[n].op = "finished")
                    /\ tr[i].op = "finished" => tr[i - 1].op = "finish" /\ i = n
              /\ Cardinality(Finishes(tr)) <= 1
              /\ t.pc \in {"h3_finish", "done"} <=> Cardinality(Finishes(tr)) = 1
              /\ t.pc = "h3_finish" <=> (n >= 1 /\ tr[n].op = "finish")
              /\ t.pc = "done" =>
                    /\ tr[n].op = "finished"
                    /\ t.res \in {"Ok", "Err"}
                    /\ ~tr[n].ok => t.log = "error")
    /\ [][task[1].pc = "h3_finish" =>
            /\ task'[1].res = task[1].res
            /\ conn' = conn]_vars

\* a task that sent a chunk, met a body error, and whose finish failed too
C32_Witness ==
    LET t == task[1]
        tr == t.trace
    IN  /\ proto = "h3"
        /\ t.pc = "done"
        /\ t.res = "Err"
        /\ \E i \in 1..Len(tr) : tr[i].op = "send_data"
        /\ \E i \in 1..Len(tr) : IsBodyErr(tr[i])
        /\ Last(tr).op = "finished" /\ ~Last(tr).ok


----------------------------------------------------------------------------
(* The HTTP/3 connection future: h3/service.rs *)

\* the most polls of one connection future
MaxPolls == 5

None == [some |-> FALSE, val |-> ""]
Some(val) == [some |-> TRUE, val |-> val]

\* State::Connecting(flow, config, peer_addr, on_connect_data, connecting)
Connecting(flow, config, peer_addr) ==
    [state |-> "Connecting", flow |-> flow, config |-> config,
     peer_addr |-> peer_addr, dispatchers |-> <<>>]

\* State::Connecting2(flow, config, peer_addr, on_connect_data, connecting)
Connecting2(flow, config, peer_addr) ==
    [state |-> "Connecting2", flow |-> flow, config |-> config,
     peer_addr |-> peer_addr, dispatchers |-> <<>>]

\* State::Connected(dispatcher, PhantomData), the other fields being gone;
\* dispatchers lists the arguments of every Dispatcher::new so far
Connected(dispatchers) ==
    [state |-> "Connected", flow |-> None, config |-> None,
     peer_addr |-> None, dispatchers |-> dispatchers]

\* H3ServiceHandler::call
H3ServiceHandler_call(flow, cfg, addr) == Connecting(Some(flow), Some(cfg), addr)

\* the answers the inner futures give when polled: "Pending", "Ok" or "Err"
PollAnswers == {"Pending", "Ok", "Err"}

polled(r, fut, answer) == Append(r, [fut |-> fut, answer |-> answer])

RECURSIVE H3ServiceHandlerResponse_poll_flow_lost(_, _, _)
\* poll with Connecting2 built without the flow
H3ServiceHandlerResponse_poll_flow_lost(this, answers, events) ==
    CASE this.state = "Connected" ->
           LET ev == polled(events, "dispatcher", answers.dispatcher)
           IN  [this |-> this, events |-> ev,
                out |-> CASE answers.dispatcher = "Pending" -> "pending"
                          [] answers.dispatcher = "Ok" -> "Ok"
                          [] OTHER -> "Dispatcher"]
      [] this.state = "Connecting" ->
           LET ev == polled(events, "connecting", answers.connecting)
           IN  CASE answers.connecting = "Pending" ->
                      [this |-> this, events |-> ev, out |-> "pending"]
                 [] answers.connecting = "Ok" ->
                      H3ServiceHandlerResponse_poll_flow_lost(
                          Connecting2(None, this.config, this.peer_addr),
                          answers, ev)
                 [] OTHER ->
                      [this |-> this, events |-> ev, out |-> "H3Connection"]
      [] OTHER ->
           LET ev == polled(events, "connecting2", answers.connecting2)
           IN  CASE answers.connecting2 = "Pending" ->
                      [this |-> this, events |-> ev, out |-> "pending"]
                 [] answers.connecting2 = "Ok" ->
                      IF ~this.flow.some
                      THEN [this |-> this, events |-> ev, out |-> "panic"]
                      ELSE IF ~this.config.some
                      THEN [this |-> [this EXCEPT !.flow = None],
                            events |-> ev, out |-> "panic"]
                      ELSE H3ServiceHandlerResponse_poll_flow_lost(
                               Connected(Append(this.dispatchers,
                                   [flow |-> this.flow.val,
                                    config |-> this.config.val,
                                    peer_addr |-> this.peer_addr])),
                               answers, ev)
                 [] OTHER -> [this |-> this, events |-> ev, out |-> "H3"]

RECURSIVE H3ServiceHandlerResponse_poll(_, _, _)
\* H3ServiceHandlerResponse::poll: one call, the inner futures answering as
\* answers says; events lists the inner polls it makes.  Connecting moves
\* its flow, config and peer_addr into Connecting2 and polls again;
\* Connecting2 takes and unwraps flow, then config (a panic at the first
\* that is None, what was taken before it being gone), builds the
\* dispatcher and polls again
H3ServiceHandlerResponse_poll(this, answers, events) ==
    CASE this.state = "Connected" ->
           LET ev == polled(events, "dispatcher", answers.dispatcher)
           IN  [this |-> this, events |-> ev,
                out |-> CASE answers.dispatcher = "Pending" -> "pending"
                          [] answers.dispatcher = "Ok" -> "Ok"
                          [] OTHER -> "Dispatcher"]
      [] this.state = "Connecting" ->
           LET ev == polled(events, "connecting", answers.connecting)
           IN  CASE answers.connecting = "Pending" ->
                      [this |-> this, events |-> ev, out |-> "pending"]
                 [] answers.connecting = "Ok" ->
                      H3ServiceHandlerResponse_poll(
                          Connecting2(this.flow, this.config, this.peer_addr),
                          answers, ev)
                 [] OTHER ->
                      [this |-> this, events |-> ev, out |-> "H3Connection"]
      [] OTHER ->
           LET ev == polled(events, "connecting2", answers.connecting2)
           IN  CASE answers.connecting2 = "Pending" ->
                      [this |-> this, events |-> ev, out |-> "pending"]
                 [] answers.connecting2 = "Ok" ->
                      IF ~this.flow.some
                      THEN [this |-> this, events |-> ev, out |-> "panic"]
                      ELSE IF ~this.config.some
                      THEN [this |-> [this EXCEPT !.flow = None],
                            events |-> ev, out |-> "panic"]
                      ELSE H3ServiceHandlerResponse_poll(
                               Connected(Append(this.dispatchers,
                                   [flow |-> this.flow.val,
                                    config |-> this.config.val,
                                    peer_addr |-> this.peer_addr])),
                               answers, ev)
                 [] OTHER -> [this |-> this, events |-> ev, out |-> "H3"]

\* the executor polls the connection future, which has not completed
h3_poll(answers) ==
    /\ call.state = "h3svc"
    /\ call.out = "pending"
    /\ call.polls < MaxPolls
    /\ LET r == H3ServiceHandlerResponse_poll(call.this, answers, call.events)
       IN  call' = [call EXCEPT !.this = r.this, !.out = r.out,
                                !.events = r.events, !.polls = @ + 1]
    /\ UNCHANGED <<proto, conn, accepts, accepted, svc_calls, task>>

PeerAddrs == {None, Some("127.0.0.1:8443")}

InitH3Svc ==
    /\ proto = "h3"
    /\ conn = "pending"
    /\ accepts = <<>>
    /\ accepted = 0
    /\ svc_calls = <<>>
    /\ task = [s \in Streams |-> IdleTask]
    /\ call \in {[state |-> "h3svc",
                  this |-> H3ServiceHandler_call("flow", "cfg", addr),
                  addr |-> addr, out |-> "pending", events |-> <<>>,
                  polls |-> 0] : addr \in PeerAddrs}

NextH3Svc ==
    \E a1, a2, a3 \in PollAnswers :
        h3_poll([connecting |-> a1, connecting2 |-> a2, dispatcher |-> a3])

SpecH3Svc == InitH3Svc /\ [][NextH3Svc]_vars

\* the place of a state in Connecting, Connecting2, Connected
StateRank(state) ==
    CASE state = "Connecting" -> 1 [] state = "Connecting2" -> 2 [] OTHER -> 3

Answered(events, fut, answer) ==
    \E i \in 1..Len(events) : events[i] = [fut |-> fut, answer |-> answer]

(* C33: the HTTP/3 connection future only moves forward through            *)
(* Connecting, Connecting2, Connected.  The dispatcher is built at most    *)
(* once, from the flow, config and peer address of the call, and only      *)
(* after both connecting steps answered Ok; flow and config are present    *)
(* whenever Connecting2 unwraps them; a failed first step completes the    *)
(* future with H3Connection, a failed second step with H3, and then no     *)
(* dispatcher was built.                                                   *)
C33_ConnectionFuture ==
    /\ [](call.state = "h3svc" =>
            LET this == call.this
                ev == call.events
            IN  /\ call.out # "panic"
                /\ this.state \in {"Connecting", "Connecting2"} =>
                      this.flow.some /\ this.config.some
                /\ Len(this.dispatchers) <= 1
                /\ Len(this.dispatchers) = 1 <=> this.state = "Connected"
                /\ this.state = "Connected" =>
                      /\ Answered(ev, "connecting", "Ok")
                      /\ Answered(ev, "connecting2", "Ok")
                      /\ this.dispatchers[1] =
                            [flow |-> "flow", config |-> "cfg",
                             peer_addr |-> call.addr]
                /\ this.state # "Connecting" => Answered(ev, "connecting", "Ok")
                /\ call.out = "H3Connection" <=> Answered(ev, "connecting", "Err")
                /\ call.out = "H3" <=> Answered(ev, "connecting2", "Err")
                /\ call.out \in {"H3Connection", "H3"} => this.dispatchers = <<>>
                /\ call.out = "H3Connection" => this.state = "Connecting"
                /\ call.out = "H3" => this.state = "Connecting2"
                /\ call.out \in {"Ok", "Dispatcher"} => this.state = "Connected")
    /\ [][call.state = "h3svc" =>
            /\ StateRank(call'.this.state) >= StateRank(call.this.state)
            /\ IsPrefix(call.this.dispatchers, call'.this.dispatchers)]_vars

\* the second step failed after the first had been Pending and then Ok
C33_Witness ==
    /\ call.state = "h3svc"
    /\ call.out = "H3"
    /\ call.this.state = "Connecting2"
    /\ call.events[1] = [fut |-> "connecting", answer |-> "Pending"]
    /\ Answered(call.events, "connecting", "Ok")
    /\ call.this.dispatchers = <<>>


----------------------------------------------------------------------------
(* One BodyStream::poll_next call and its polls of the wrapped stream *)

\* what the j-th poll of the wrapped stream answers
ItemAt(items, j) == IF j > Len(items) THEN ItemNone ELSE items[j]

RECURSIVE PollsBefore(_, _)
\* the polls of the wrapped stream made by the calls before the k-th
PollsBefore(out, k) ==
    IF k <= 1 THEN 0 ELSE PollsBefore(out, k - 1) + out[k - 1].polls

(* C34: one BodyStream::poll_next call polls the wrapped sequence from     *)
(* where the call before stopped, goes past m ready zero-length chunks and *)
(* returns the next answer (Pending, a non-empty chunk, an error or the    *)
(* end) after exactly m + 1 polls; a Pending answer ends the call at once  *)
(* and loses nothing, the item behind it being what a later call polls     *)
(* first.                                                                  *)
C34_OneCall ==
    call.state \in {"stream", "ended"} =>
        LET items == call.body.stream.items
            out == call.out
        IN  /\ call.body.stream.polled = PollsBefore(out, Len(out) + 1)
            /\ call.body.stream.pos =
                  Min(call.body.stream.polled, Len(items)) + 1
            /\ \A k \in 1..Len(out) :
                  LET first == PollsBefore(out, k) + 1
                      last == PollsBefore(out, k) + out[k].polls
                  IN  /\ out[k].polls >= 1
                      /\ \A j \in first..(last - 1) :
                            IsEmptyChunk(ItemAt(items, j))
                      /\ ~IsEmptyChunk(ItemAt(items, last))
                      /\ out[k].item = ItemAt(items, last)
                      /\ out[k].polls =
                            Cardinality({j \in first..last :
                                            IsEmptyChunk(ItemAt(items, j))}) + 1
                      /\ (out[k].item.t = "Pending" /\ k < Len(out)) =>
                            /\ PollsBefore(out, k + 1) = last
                            /\ out[k + 1].polls >= 1

\* Pending behind one empty chunk after two polls, then the chunk behind
\* it from the next call after one
C34_Witness ==
    /\ call.state = "stream"
    /\ Len(call.body.stream.items) = 3
    /\ IsEmptyChunk(call.body.stream.items[1])
    /\ call.body.stream.items[2] = ItemPending
    /\ call.body.stream.items[3].t = "Ok"
    /\ call.body.stream.items[3].bytes.len > 0
    /\ call.out = <<[item |-> ItemPending, polls |-> 2],
                    [item |-> call.body.stream.items[3], polls |-> 1]>>

====
